---- MODULE Spec2Model ----
(***************************************************************************)
(* VibeBase: the provider execution layer of src-tauri.                    *)
(*                                                                         *)
(* Strings the code inspects character by character (templates, variable  *)
(* names and values) are sequences of one-character strings.  Strings the  *)
(* code only passes along or compares as a whole (model names, base URLs,  *)
(* API keys, response bodies) are TLA+ strings.                            *)
(***************************************************************************)
EXTENDS Integers, Sequences, FiniteSets, TLC

VARIABLES
    tTemplate,   \* substitution specification: the template handed to replace_variables
    tVariables,  \* ... the variable map
    tCalled,     \* ... whether replace_variables has returned
    tResult,     \* ... what it returned
    pc,          \* execute_prompt: "idle", "awaiting" (the HTTP response) or "done"
    call,        \* the arguments of the execute_prompt invocation
    request,     \* the HTTP request the adapter has sent, None before
    httpCount,   \* HTTP requests sent during the invocation
    response,    \* what the send came back with, NoResponse before
    outcome,     \* what execute_prompt returned, NoOutcome before
    costArgs,    \* cost specification: the arguments of calculate_cost
    costCalled,  \* ... whether calculate_cost has returned
    costValue,   \* ... what it returned
    kStore,      \* keychain specification: the secret stored per environment
    kAvailable,  \* ... whether the platform secret store can be reached
    kLast,       \* ... the last KeychainService call and what it returned
    nPc,         \* concurrent specification: each invocation's position
    nCall,       \* ... its arguments
    nRequest,    \* ... the request it sent
    nResponse,   \* ... what its send came back with
    nOutcome,    \* ... what it returned
    nPeers,      \* ... history: the invocations in flight when it resumed
    nLock,       \* ... the holder of AppState.app_database, 0 when free
    lPc,         \* latency specification: the position of execute
    lNow,        \* ... the monotonic clock, in milliseconds
    lStart,      \* ... the Instant execute recorded as start
    lDispatch,   \* ... history: the clock when the provider was called
    lReturn,     \* ... history: the clock when the provider call returned
    lLatency,    \* ... latency_ms of the result
    hEntries,    \* history specification: the rows of file_history, in insertion order
    hClock,      \* ... the system clock, in seconds
    hLast,       \* ... the last save_file_history call, the rows it met and what it returned
    uTable,      \* provider specification: the rows of llm_providers, by name
    uNextId,     \* ... the next fresh uuid
    uLast,       \* ... the last command, the table it met and what it returned
    vInput,      \* validation specification: what validate_file finds on disk and in the database
    vCalled,     \* ... whether validate_file has returned
    vResult      \* ... the ValidationResult it returned

tvars == <<tTemplate, tVariables, tCalled, tResult>>

evars == <<pc, call, request, httpCount, response, outcome>>

cvars == <<costArgs, costCalled, costValue>>

kvars == <<kStore, kAvailable, kLast>>

nvars == <<nPc, nCall, nRequest, nResponse, nOutcome, nPeers, nLock>>

lvars == <<lPc, lNow, lStart, lDispatch, lReturn, lLatency>>

hvars == <<hEntries, hClock, hLast>>

uvars == <<uTable, uNextId, uLast>>

vvars == <<vInput, vCalled, vResult>>

vars == <<tTemplate, tVariables, tCalled, tResult, pc, call, request, httpCount,
         response, outcome, costArgs, costCalled, costValue, kStore, kAvailable, kLast,
         nPc, nCall, nRequest, nResponse, nOutcome, nPeers, nLock,
         lPc, lNow, lStart, lDispatch, lReturn, lLatency,
         hEntries, hClock, hLast,
         uTable, uNextId, uLast,
         vInput, vCalled, vResult>>

(***************************************************************************)
(* Bounds of the model.                                                    *)
(***************************************************************************)
\* number of pieces a template of the substitution specification is built of
MaxParts == 2

\* number of messages of a prompt
MaxMsgs == 2

\* the small token counts of the cost specification are 0..MaxTokens
MaxTokens == 2

\* the number of concurrent invocations of execute_prompt
NumCalls == 2

\* the most milliseconds one step of execute takes, and the latest start
MaxTick == 3

\* the most rows of file_history
MaxHistory == 3

\* the last second of the system clock
MaxSecond == 1

\* the number of uuids save_llm_provider may draw
MaxIds == 2

\* the most messages of a validated file, and the most dependencies
MaxParsed == 2

(***************************************************************************)
(* services/template.rs                                                    *)
(***************************************************************************)
None == "None"

\* the character classes of the regex \{\{([a-zA-Z_][a-zA-Z0-9_]*)\}\}
IsIdStart(c) == c \in {"a", "b", "_"}

IsIdChar(c) == IsIdStart(c) \/ c \in {"1"}

\* greedy [a-zA-Z0-9_]*: the last index of the run of identifier characters
\* that starts at j (j - 1 when s[j] is none)
RECURSIVE IdentEnd(_, _)
IdentEnd(s, j) ==
    IF j <= Len(s) /\ IsIdChar(s[j]) THEN IdentEnd(s, j + 1) ELSE j - 1

\* the regex matches at index i of s
MatchAt(s, i) ==
    /\ i + 4 <= Len(s)
    /\ s[i] = "{"
    /\ s[i + 1] = "{"
    /\ IsIdStart(s[i + 2])
    /\ LET e == IdentEnd(s, i + 2)
       IN  /\ e + 2 <= Len(s)
           /\ s[e + 1] = "}"
           /\ s[e + 2] = "}"

\* regex.captures_iter: the capture groups of the leftmost non-overlapping
\* matches, scanning from index i
RECURSIVE Captures(_, _)
Captures(s, i) ==
    IF i > Len(s) THEN <<>>
    ELSE IF MatchAt(s, i)
         THEN LET e == IdentEnd(s, i + 2)
              IN  <<SubSeq(s, i + 2, e)>> \o Captures(s, e + 3)
         ELSE Captures(s, i + 1)

\* format!("{{{{{}}}}}", var_name)
Placeholder(name) == <<"{", "{">> \o name \o <<"}", "}">>

OccursAt(s, pat, i) ==
    /\ i + Len(pat) - 1 <= Len(s)
    /\ SubSeq(s, i, i + Len(pat) - 1) = pat

\* str::replace: every non-overlapping occurrence of pat, left to right;
\* the inserted text is not scanned again
RECURSIVE StrReplaceFrom(_, _, _, _)
StrReplaceFrom(s, pat, val, i) ==
    IF i > Len(s) THEN <<>>
    ELSE IF OccursAt(s, pat, i)
         THEN val \o StrReplaceFrom(s, pat, val, i + Len(pat))
         ELSE <<s[i]>> \o StrReplaceFrom(s, pat, val, i + 1)

StrReplace(s, pat, val) == StrReplaceFrom(s, pat, val, 1)

\* the loop of replace_variables over the captures caps[k..]
RECURSIVE ReplaceLoop(_, _, _, _, _)
ReplaceLoop(caps, k, variables, result, missing_vars) ==
    IF k > Len(caps) THEN [result |-> result, missing_vars |-> missing_vars]
    ELSE LET var_name == caps[k]
         IN  IF var_name \in DOMAIN variables
             THEN ReplaceLoop(caps, k + 1, variables,
                      StrReplace(result, Placeholder(var_name), variables[var_name]),
                      missing_vars)
             ELSE ReplaceLoop(caps, k + 1, variables, result,
                      Append(missing_vars, var_name))

\* replace_variables returning the template it was given instead of the
\* string the replacements were made in
replace_variables_ReturnsTemplate(template, variables) ==
    LET r == ReplaceLoop(Captures(template, 1), 1, variables, template, <<>>)
    IN  IF r.missing_vars # <<>>
        THEN [ok |-> FALSE, value |-> <<>>, missing |-> r.missing_vars]
        ELSE [ok |-> TRUE, value |-> template, missing |-> <<>>]

\* Result<String, String>: Ok(result), or Err("Missing variables: a, b") whose
\* listing is kept as the sequence of the names joined
replace_variables(template, variables) ==
    LET r == ReplaceLoop(Captures(template, 1), 1, variables, template, <<>>)
    IN  IF r.missing_vars # <<>>
        THEN [ok |-> FALSE, value |-> <<>>, missing |-> r.missing_vars]
        ELSE [ok |-> TRUE, value |-> r.result, missing |-> <<>>]

(***************************************************************************)
(* models/prompt.rs, models/execution.rs                                   *)
(***************************************************************************)
\* enum Provider, by variant name
Provider == {"OpenAI", "Anthropic", "DeepSeek", "OpenRouter", "Ollama",
             "AzureOpenAI", "Google", "AiHubMix", "GitHub"}

\* the serde names of the variants: what the provider key of a prompt's YAML
\* may hold; any other string fails to deserialize
ProviderFromYaml ==
    [openai |-> "OpenAI", anthropic |-> "Anthropic", deepseek |-> "DeepSeek",
     openrouter |-> "OpenRouter", ollama |-> "Ollama",
     azure_openai |-> "AzureOpenAI", google |-> "Google",
     aihubmix |-> "AiHubMix", github |-> "GitHub"]

\* format!("{:?}", msg.role).to_lowercase()
RoleName == [System |-> "system", User |-> "user", Assistant |-> "assistant"]

\* an error string: the words of its fixed text, and what is formatted into it
Err(text, names, status, body) ==
    [kind |-> "Err", text |-> text, names |-> names, status |-> status, body |-> body]

\* Result<_, String> of a step that succeeded with value v
Ok(v) == [kind |-> "Ok", value |-> v]

\* the inner loop of extract_variables pushing every capture, seen before
\* or not
PushNew_Always(caps, k, variables) == variables \o SubSeq(caps, k, Len(caps))

\* the inner loop of extract_variables over the captures caps[k..]:
\* `if !variables.contains(&var_name) { variables.push(var_name) }`
RECURSIVE PushNew(_, _, _)
PushNew(caps, k, variables) ==
    IF k > Len(caps) THEN variables
    ELSE PushNew(caps, k + 1,
             IF \E i \in 1..Len(variables) : variables[i] = caps[k]
             THEN variables
             ELSE Append(variables, caps[k]))

\* its outer loop over the messages k..
RECURSIVE ExtractLoop(_, _, _)
ExtractLoop(messages, k, variables) ==
    IF k > Len(messages) THEN variables
    ELSE ExtractLoop(messages, k + 1,
             PushNew(Captures(messages[k].content, 1), 1, variables))

\* PromptRuntime::extract_variables
extract_variables(prompt) == ExtractLoop(prompt.messages, 1, <<>>)

(***************************************************************************)
(* services/providers/openai.rs                                            *)
(*                                                                         *)
(* An Option is a sequence: None is <<>>, Some(x) is <<x>>.  A URL is the   *)
(* sequence of its fragments, so that format! appends a fragment and        *)
(* contains looks for one.                                                 *)
(***************************************************************************)
OpenAIDefaultBase == <<"https://", "api.openai.com", "/v1">>

\* execute_with_name adding the Authorization header whatever the key
execute_with_name_AlwaysBearer(model, messages, temperature, api_key, base_url, provider_name) ==
    LET url_base == IF base_url = <<>> THEN OpenAIDefaultBase ELSE base_url[1]
    IN  [adapter |-> "openai",
         provider_name |-> provider_name,
         url |-> Append(url_base, "/chat/completions"),
         body |-> [model |-> model, messages |-> messages,
                   temperature |-> temperature, stream |-> <<FALSE>>],
         authorization |-> <<"Bearer", api_key>>,
         openrouter_headers |-> \E i \in 1..Len(url_base) : url_base[i] = "openrouter.ai"]

\* execute_with_name up to req.send(): the request it sends
execute_with_name(model, messages, temperature, api_key, base_url, provider_name) ==
    LET url_base == IF base_url = <<>> THEN OpenAIDefaultBase ELSE base_url[1]
    IN  [adapter |-> "openai",
         provider_name |-> provider_name,
         url |-> Append(url_base, "/chat/completions"),
         body |-> [model |-> model, messages |-> messages,
                   temperature |-> temperature, stream |-> <<FALSE>>],
         authorization |-> IF api_key # "" THEN <<"Bearer", api_key>> ELSE <<>>,
         openrouter_headers |-> \E i \in 1..Len(url_base) : url_base[i] = "openrouter.ai"]

\* serde_json: the body text as an OpenAIResponse; valid is FALSE when the
\* text is not one
ParseOpenAIResponse(text) ==
    CASE text = "openai:one-choice" ->
             [valid |-> TRUE, choices |-> <<"Hi Ada">>,
              usage |-> [prompt_tokens |-> 5, completion_tokens |-> 3]]
      [] text = "openai:two-choices" ->
             [valid |-> TRUE, choices |-> <<"first", "second">>,
              usage |-> [prompt_tokens |-> 2, completion_tokens |-> 1]]
      [] text = "openai:no-choices" ->
             [valid |-> TRUE, choices |-> <<>>,
              usage |-> [prompt_tokens |-> 5, completion_tokens |-> 0]]
      [] OTHER -> [valid |-> FALSE]

\* is_success taking every status below 500 for a success
IsSuccess_Below500(status) == status >= 200 /\ status <= 499

\* StatusCode::is_success
IsSuccess(status) == status >= 200 /\ status <= 299

\* execute_with_name from the return of req.send() on.  resp.sent is whether
\* send() returned a response, resp.readable whether its body could be read.
\* Indexing choices[0] of an empty vector panics.
execute_with_name_response(resp) ==
    IF ~resp.sent THEN Err(<<"Network", "error:">>, <<>>, 0, "")
    ELSE IF ~IsSuccess(resp.status)
    THEN LET error_text == IF resp.readable THEN resp.body ELSE ""
         IN  Err(<<"API", "error">>, <<>>, resp.status, error_text)
    ELSE IF ~resp.readable
    THEN Err(<<"Failed", "to", "parse", "response:">>, <<>>, 0, "")
    ELSE LET api_response == ParseOpenAIResponse(resp.body)
         IN  IF ~api_response.valid
             THEN Err(<<"Failed", "to", "parse", "response:">>, <<>>, 0, "")
             ELSE IF Len(api_response.choices) = 0
             THEN [kind |-> "Panic"]
             ELSE Ok([output |-> api_response.choices[1],
                      usage |-> api_response.usage])

(***************************************************************************)
(* services/providers/anthropic.rs                                         *)
(***************************************************************************)
AnthropicBase == <<"https://", "api.anthropic.com", "/v1">>

\* anthropic::execute up to the send: the messages-API request
anthropic_execute(model, messages, temperature, api_key) ==
    [adapter |-> "anthropic",
     provider_name |-> "Anthropic",
     url |-> Append(AnthropicBase, "/messages"),
     body |-> [model |-> model, messages |-> messages,
               temperature |-> temperature, stream |-> <<>>],
     authorization |-> IF api_key # "" THEN <<"Bearer", api_key>> ELSE <<>>,
     openrouter_headers |-> FALSE]

\* the messages-API envelope, its usage fields mapped to the normalized names
ParseAnthropicResponse(text) ==
    CASE text = "anthropic:one-block" ->
             [valid |-> TRUE, content |-> <<"Hello">>,
              usage |-> [prompt_tokens |-> 4, completion_tokens |-> 2]]
      [] OTHER -> [valid |-> FALSE]

\* anthropic::execute from the return of the send on
anthropic_execute_response(resp) ==
    IF ~resp.sent THEN Err(<<"Network", "error:">>, <<>>, 0, "")
    ELSE IF ~IsSuccess(resp.status)
    THEN Err(<<"API", "error">>, <<>>, resp.status,
             IF resp.readable THEN resp.body ELSE "")
    ELSE IF ~resp.readable
    THEN Err(<<"Failed", "to", "parse", "response:">>, <<>>, 0, "")
    ELSE LET api_response == ParseAnthropicResponse(resp.body)
         IN  IF ~api_response.valid \/ api_response.content = <<>>
             THEN Err(<<"Failed", "to", "parse", "response:">>, <<>>, 0, "")
             ELSE Ok([output |-> api_response.content[1],
                      usage |-> api_response.usage])

(***************************************************************************)
(* services/providers/mod.rs                                               *)
(***************************************************************************)
\* Option::unwrap_or
UnwrapOr(opt, default) == IF opt = <<>> THEN default ELSE opt[1]

\* an adapter call that reached its send
Send(req) == [kind |-> "Send", request |-> req]

\* execute_with_provider with Google, GitHub and AzureOpenAI handed to the
\* OpenAI-compatible adapter like the other kinds
execute_with_provider_AllCompatible(provider, model, messages, temperature, api_key, base_url) ==
    CASE provider = "Anthropic" ->
             Send(anthropic_execute(model, messages, temperature, api_key))
      [] provider = "DeepSeek" ->
             LET url == UnwrapOr(base_url, <<"https://", "api.deepseek.com">>)
             IN  Send(execute_with_name(model, messages, temperature, api_key, <<url>>, "DeepSeek"))
      [] provider = "OpenRouter" ->
             LET url == UnwrapOr(base_url, <<"https://", "openrouter.ai", "/api", "/v1">>)
             IN  Send(execute_with_name(model, messages, temperature, api_key, <<url>>, "OpenRouter"))
      [] provider = "Ollama" ->
             LET url == UnwrapOr(base_url, <<"http://", "localhost:11434", "/v1">>)
             IN  Send(execute_with_name(model, messages, temperature, "", <<url>>, "Ollama"))
      [] provider = "AiHubMix" ->
             LET url == UnwrapOr(base_url, <<"https://", "aihubmix.com", "/v1">>)
             IN  Send(execute_with_name(model, messages, temperature, api_key, <<url>>, "AiHubMix"))
      [] provider = "Custom" ->
             IF base_url = <<>>
             THEN Err(<<"Custom", "provider", "requires", "base_url">>, <<>>, 0, "")
             ELSE Send(execute_with_name(model, messages, temperature, api_key, base_url, "Custom"))
      [] OTHER ->
             Send(execute_with_name(model, messages, temperature, api_key, <<>>, provider))

\* execute_with_provider handing the caller's key to the adapter for Ollama
\* too
execute_with_provider_OllamaKeyed(provider, model, messages, temperature, api_key, base_url) ==
    CASE provider = "OpenAI" ->
             Send(execute_with_name(model, messages, temperature, api_key, <<>>, "OpenAI"))
      [] provider = "Anthropic" ->
             Send(anthropic_execute(model, messages, temperature, api_key))
      [] provider = "DeepSeek" ->
             LET url == UnwrapOr(base_url, <<"https://", "api.deepseek.com">>)
             IN  Send(execute_with_name(model, messages, temperature, api_key, <<url>>, "DeepSeek"))
      [] provider = "OpenRouter" ->
             LET url == UnwrapOr(base_url, <<"https://", "openrouter.ai", "/api", "/v1">>)
             IN  Send(execute_with_name(model, messages, temperature, api_key, <<url>>, "OpenRouter"))
      [] provider = "Ollama" ->
             LET url == UnwrapOr(base_url, <<"http://", "localhost:11434", "/v1">>)
             IN  Send(execute_with_name(model, messages, temperature, api_key, <<url>>, "Ollama"))
      [] provider = "AiHubMix" ->
             LET url == UnwrapOr(base_url, <<"https://", "aihubmix.com", "/v1">>)
             IN  Send(execute_with_name(model, messages, temperature, api_key, <<url>>, "AiHubMix"))
      [] provider = "Custom" ->
             IF base_url = <<>>
             THEN Err(<<"Custom", "provider", "requires", "base_url">>, <<>>, 0, "")
             ELSE Send(execute_with_name(model, messages, temperature, api_key, base_url, "Custom"))
      [] provider = "Google" ->
             Err(<<"Google", "Gemini", "API", "format", "is", "different,",
                   "requires", "separate", "implementation">>, <<>>, 0, "")
      [] provider = "GitHub" ->
             Err(<<"GitHub", "Copilot", "not", "yet", "implemented">>, <<>>, 0, "")
      [] provider = "AzureOpenAI" ->
             Err(<<"Azure", "OpenAI", "requires", "deployment-specific", "URL",
                   "configuration">>, <<>>, 0, "")

\* the match of execute_with_provider: the adapter's request, or the error
\* returned before any adapter is called
execute_with_provider(provider, model, messages, temperature, api_key, base_url) ==
    CASE provider = "OpenAI" ->
             Send(execute_with_name(model, messages, temperature, api_key, <<>>, "OpenAI"))
      [] provider = "Anthropic" ->
             Send(anthropic_execute(model, messages, temperature, api_key))
      [] provider = "DeepSeek" ->
             LET url == UnwrapOr(base_url, <<"https://", "api.deepseek.com">>)
             IN  Send(execute_with_name(model, messages, temperature, api_key, <<url>>, "DeepSeek"))
      [] provider = "OpenRouter" ->
             LET url == UnwrapOr(base_url, <<"https://", "openrouter.ai", "/api", "/v1">>)
             IN  Send(execute_with_name(model, messages, temperature, api_key, <<url>>, "OpenRouter"))
      [] provider = "Ollama" ->
             LET url == UnwrapOr(base_url, <<"http://", "localhost:11434", "/v1">>)
             IN  Send(execute_with_name(model, messages, temperature, "", <<url>>, "Ollama"))
      [] provider = "AiHubMix" ->
             LET url == UnwrapOr(base_url, <<"https://", "aihubmix.com", "/v1">>)
             IN  Send(execute_with_name(model, messages, temperature, api_key, <<url>>, "AiHubMix"))
      [] provider = "Custom" ->
             IF base_url = <<>>
             THEN Err(<<"Custom", "provider", "requires", "base_url">>, <<>>, 0, "")
             ELSE Send(execute_with_name(model, messages, temperature, api_key, base_url, "Custom"))
      [] provider = "Google" ->
             Err(<<"Google", "Gemini", "API", "format", "is", "different,",
                   "requires", "separate", "implementation">>, <<>>, 0, "")
      [] provider = "GitHub" ->
             Err(<<"GitHub", "Copilot", "not", "yet", "implemented">>, <<>>, 0, "")
      [] provider = "AzureOpenAI" ->
             Err(<<"Azure", "OpenAI", "requires", "deployment-specific", "URL",
                   "configuration">>, <<>>, 0, "")

(***************************************************************************)
(* services/executor.rs                                                    *)
(***************************************************************************)
\* the temperature a prompt without one is run at: 0.7, in tenths
DefaultTemperature == 7

\* the price table pricing an OpenAI model it does not list as gpt-4o
Prices_UnlistedAsGpt4o(model, provider) ==
    CASE provider = "OpenAI" ->
             (CASE model = "gpt-4o-mini" -> <<15, 60>>
                [] model = "gpt-4-turbo" -> <<1000, 3000>>
                [] model = "gpt-4" -> <<3000, 6000>>
                [] model = "gpt-3.5-turbo" -> <<50, 150>>
                [] OTHER -> <<250, 1000>>)
      [] provider = "Anthropic" ->
             (CASE model = "claude-3-opus-20240229" -> <<1500, 7500>>
                [] model = "claude-3-sonnet-20240229" -> <<300, 1500>>
                [] model = "claude-3-haiku-20240307" -> <<25, 125>>
                [] model = "claude-3-5-sonnet-20241022" -> <<300, 1500>>
                [] OTHER -> <<0, 0>>)
      [] provider = "DeepSeek" -> <<14, 28>>
      [] OTHER -> <<0, 0>>

\* per million tokens, in cents: (input_price, output_price)
Prices(model, provider) ==
    CASE provider = "OpenAI" ->
             (CASE model = "gpt-4o" -> <<250, 1000>>
                [] model = "gpt-4o-mini" -> <<15, 60>>
                [] model = "gpt-4-turbo" -> <<1000, 3000>>
                [] model = "gpt-4" -> <<3000, 6000>>
                [] model = "gpt-3.5-turbo" -> <<50, 150>>
                [] OTHER -> <<0, 0>>)
      [] provider = "Anthropic" ->
             (CASE model = "claude-3-opus-20240229" -> <<1500, 7500>>
                [] model = "claude-3-sonnet-20240229" -> <<300, 1500>>
                [] model = "claude-3-haiku-20240307" -> <<25, 125>>
                [] model = "claude-3-5-sonnet-20241022" -> <<300, 1500>>
                [] OTHER -> <<0, 0>>)
      [] provider = "DeepSeek" -> <<14, 28>>
      [] provider = "Ollama" -> <<0, 0>>
      [] provider = "OpenRouter" -> <<0, 0>>
      [] provider = "AiHubMix" -> <<0, 0>>
      [] provider = "Google" -> <<0, 0>>
      [] provider = "GitHub" -> <<0, 0>>
      [] OTHER -> <<0, 0>>

\* calculate_cost pricing the input tokens at the output price and the
\* output tokens at the input price
calculate_cost_PricesSwapped(model, provider, input_tokens, output_tokens) ==
    LET price == Prices(model, provider)
        cost_input == input_tokens * price[2]
        cost_output == output_tokens * price[1]
    IN  cost_input + cost_output

\* the cost in units of 1e-8 USD: tokens / 1e6 * price
calculate_cost(model, provider, input_tokens, output_tokens) ==
    LET price == Prices(model, provider)
        cost_input == input_tokens * price[1]
        cost_output == output_tokens * price[2]
    IN  cost_input + cost_output

\* the substitution loop of execute over messages k..: the first message
\* replace_variables fails on ends the call with that message's error (`?`)
RECURSIVE SubstituteMessages(_, _, _, _)
SubstituteMessages(msgs, k, variables, messages) ==
    IF k > Len(msgs) THEN Ok(messages)
    ELSE LET content == replace_variables(msgs[k].content, variables)
         IN  IF ~content.ok
             THEN Err(<<"Missing", "variables:">>, content.missing, 0, "")
             ELSE SubstituteMessages(msgs, k + 1, variables,
                      Append(messages, [role |-> RoleName[msgs[k].role],
                                        content |-> content.value]))

\* the temperature defaulting to 1.0 instead of 0.7
Temperature_DefaultsToOne(prompt) ==
    IF prompt.parameters = <<>> THEN 10
    ELSE UnwrapOr(prompt.parameters[1].temperature, 10)

\* prompt.config.parameters.as_ref().and_then(|p| p.temperature).unwrap_or(0.7)
Temperature(prompt) ==
    IF prompt.parameters = <<>> THEN DefaultTemperature
    ELSE UnwrapOr(prompt.parameters[1].temperature, DefaultTemperature)

\* execute calling the provider before it looks at the outcome of the
\* substitution
execute_DispatchesFirst(prompt, variables, api_key, base_url) ==
    LET messages == SubstituteMessages(prompt.messages, 1, variables, <<>>)
    IN  execute_with_provider(prompt.provider, prompt.model,
            IF messages.kind = "Err" THEN <<>> ELSE messages.value,
            Temperature(prompt), api_key, base_url)

\* Executor::execute up to the await of the provider call
execute(prompt, variables, api_key, base_url) ==
    LET messages == SubstituteMessages(prompt.messages, 1, variables, <<>>)
    IN  IF messages.kind = "Err" THEN messages
        ELSE execute_with_provider(prompt.provider, prompt.model, messages.value,
                 Temperature(prompt), api_key, base_url)

\* execute_response with the two token counts of the usage exchanged
execute_response_TokensSwapped(prompt, provided) ==
    IF provided.kind # "Ok" THEN provided
    ELSE LET usage == provided.value.usage
         IN  Ok([output |-> provided.value.output,
                 model |-> prompt.model,
                 provider |-> prompt.provider,
                 tokens_input |-> usage.completion_tokens,
                 tokens_output |-> usage.prompt_tokens,
                 cost_usd |-> calculate_cost(prompt.model, prompt.provider,
                                  usage.prompt_tokens, usage.completion_tokens)])

\* Executor::execute from the return of the provider call on.  The id, the
\* latency and the timestamp of the result are drawn from the environment
\* (uuid, clocks) and are left out of the record.
execute_response(prompt, provided) ==
    IF provided.kind # "Ok" THEN provided
    ELSE LET usage == provided.value.usage
         IN  Ok([output |-> provided.value.output,
                 model |-> prompt.model,
                 provider |-> prompt.provider,
                 tokens_input |-> usage.prompt_tokens,
                 tokens_output |-> usage.completion_tokens,
                 cost_usd |-> calculate_cost(prompt.model, prompt.provider,
                                  usage.prompt_tokens, usage.completion_tokens)])

(***************************************************************************)
(* The substitution specification: replace_variables applied to bounded    *)
(* templates and variable maps.                                            *)
(***************************************************************************)
NameA == <<"a">>

NameB == <<"b">>

Names == {NameA, NameB}

\* what templates are built of: placeholders, stray braces and plain text
Pieces == {Placeholder(NameA), Placeholder(NameB), <<"{", "{">>, <<"}", "}">>,
           <<"{">>, <<"b">>}

\* values a variable may hold: empty, plain text, a brace, a placeholder
Values == {<<>>, <<"b">>, <<"{">>, Placeholder(NameB)}

RECURSIVE Flatten(_)
Flatten(ps) == IF ps = <<>> THEN <<>> ELSE Head(ps) \o Flatten(Tail(ps))

Templates == {Flatten(ps) : ps \in UNION {[1..k -> Pieces] : k \in 0..MaxParts}}

VarMaps == UNION {[D -> Values] : D \in SUBSET Names}

NoResult == [ok |-> FALSE, value |-> <<>>, missing |-> <<>>]

NoOutcome == [kind |-> "None"]

NoCall == [provider |-> None]

NoRequest == [adapter |-> None]

NoCostArgs == [model |-> None, provider |-> None, input_tokens |-> 0, output_tokens |-> 0]

Invocations == 1..NumCalls

\* the ValidationResult validate_file starts from
NewResult == [status |-> "Valid", errors |-> <<>>, warnings |-> <<>>, dependencies |-> <<>>]

NoFile ==
    [exists |-> FALSE, checksum |-> "ok", readable |-> FALSE,
     parsed |-> [ok |-> FALSE, messages |-> <<>>], deps |-> [ok |-> FALSE, deps |-> <<>>]]

\* the names llm_providers rows are stored under
ProviderNames == {"my-provider", "openai"}

NoInput == [name |-> None, api_key |-> <<>>, api_key_value |-> <<>>]

NoCommand ==
    [op |-> None, provider_name |-> None, input |-> NoInput,
     before |-> [name \in ProviderNames |-> <<>>], ok |-> FALSE, output |-> <<>>]

NoSave == [file_path |-> None, content |-> None, before |-> <<>>, returned |-> FALSE]

\* the environments API keys are stored for
Environments == {"dev", "prod"}

NoKeychainCall ==
    [op |-> None, environment |-> None, available |-> TRUE, stored |-> FALSE,
     result |-> NoOutcome]

NoResponse == [sent |-> FALSE, status |-> 0, readable |-> FALSE, body |-> None]

InitTemplate ==
    /\ tTemplate \in Templates
    /\ tVariables \in VarMaps
    /\ tCalled = FALSE
    /\ tResult = NoResult
    /\ pc = "idle"
    /\ call = NoCall
    /\ request = NoRequest
    /\ httpCount = 0
    /\ response = NoResponse
    /\ outcome = NoOutcome
    /\ costArgs = NoCostArgs
    /\ costCalled = FALSE
    /\ costValue = 0
    /\ kStore = [environment \in Environments |-> <<>>]
    /\ kAvailable = TRUE
    /\ kLast = NoKeychainCall
    /\ nPc = [i \in Invocations |-> "idle"]
    /\ nCall = [i \in Invocations |-> NoCall]
    /\ nRequest = [i \in Invocations |-> NoRequest]
    /\ nResponse = [i \in Invocations |-> NoResponse]
    /\ nOutcome = [i \in Invocations |-> NoOutcome]
    /\ nPeers = [i \in Invocations |-> {}]
    /\ nLock = 0
    /\ lPc = "idle"
    /\ lNow = 0
    /\ lStart = 0
    /\ lDispatch = 0
    /\ lReturn = 0
    /\ lLatency = 0
    /\ hEntries = <<>>
    /\ hClock = 0
    /\ hLast = NoSave
    /\ uTable = [name \in ProviderNames |-> <<>>]
    /\ uNextId = 1
    /\ uLast = NoCommand
    /\ vInput = NoFile
    /\ vCalled = FALSE
    /\ vResult = NewResult

Substitute ==
    /\ ~tCalled
    /\ tCalled' = TRUE
    /\ tResult' = replace_variables(tTemplate, tVariables)
    /\ UNCHANGED <<tTemplate, tVariables>>
    /\ UNCHANGED <<evars, cvars, kvars, nvars, lvars, hvars, uvars, vvars>>

SpecTemplate == InitTemplate /\ [][Substitute]_vars

(***************************************************************************)
(* The cost specification: calculate_cost applied to every provider, to    *)
(* the models the price table names and one it does not, and to bounded    *)
(* token counts.                                                           *)
(***************************************************************************)
\* the model names the match of calculate_cost lists, per provider
ListedModels(provider) ==
    CASE provider = "OpenAI" ->
             {"gpt-4o", "gpt-4o-mini", "gpt-4-turbo", "gpt-4", "gpt-3.5-turbo"}
      [] provider = "Anthropic" ->
             {"claude-3-opus-20240229", "claude-3-sonnet-20240229",
              "claude-3-haiku-20240307", "claude-3-5-sonnet-20241022"}
      [] OTHER -> {}

CostModels == ListedModels("OpenAI") \cup ListedModels("Anthropic") \cup {"my-model"}

\* u32 token counts: the small ones and a large one
TokenCounts == 0..MaxTokens \cup {100000}

InitCost ==
    /\ tTemplate = <<>>
    /\ tVariables = <<>>
    /\ tCalled = FALSE
    /\ tResult = NoResult
    /\ pc = "idle"
    /\ call = NoCall
    /\ request = NoRequest
    /\ httpCount = 0
    /\ response = NoResponse
    /\ outcome = NoOutcome
    /\ costArgs \in [model : CostModels, provider : Provider,
                     input_tokens : TokenCounts, output_tokens : TokenCounts]
    /\ costCalled = FALSE
    /\ costValue = 0
    /\ kStore = [environment \in Environments |-> <<>>]
    /\ kAvailable = TRUE
    /\ kLast = NoKeychainCall
    /\ nPc = [i \in Invocations |-> "idle"]
    /\ nCall = [i \in Invocations |-> NoCall]
    /\ nRequest = [i \in Invocations |-> NoRequest]
    /\ nResponse = [i \in Invocations |-> NoResponse]
    /\ nOutcome = [i \in Invocations |-> NoOutcome]
    /\ nPeers = [i \in Invocations |-> {}]
    /\ nLock = 0
    /\ lPc = "idle"
    /\ lNow = 0
    /\ lStart = 0
    /\ lDispatch = 0
    /\ lReturn = 0
    /\ lLatency = 0
    /\ hEntries = <<>>
    /\ hClock = 0
    /\ hLast = NoSave
    /\ uTable = [name \in ProviderNames |-> <<>>]
    /\ uNextId = 1
    /\ uLast = NoCommand
    /\ vInput = NoFile
    /\ vCalled = FALSE
    /\ vResult = NewResult

CalculateCost ==
    /\ ~costCalled
    /\ costCalled' = TRUE
    /\ costValue' = calculate_cost(costArgs.model, costArgs.provider,
                        costArgs.input_tokens, costArgs.output_tokens)
    /\ UNCHANGED costArgs
    /\ UNCHANGED <<tvars, evars, kvars, nvars, lvars, hvars, uvars, vvars>>

SpecCost == InitCost /\ [][CalculateCost]_vars

(***************************************************************************)
(* services/keychain.rs: the API keys of KeychainService over the platform *)
(* secret store.  The store holds at most one secret per environment and   *)
(* may become unreachable; keyring then fails either at Entry::new or at    *)
(* the operation on the entry.                                             *)
(***************************************************************************)
Secrets == {"sk-one", "sk-two"}

\* keyring::Error as its Display text
NoEntry == "No matching entry found in secure storage"

PlatformFailure == "Platform secure storage failure"

\* what keyring returns while the store cannot be reached
StoreErrors == {PlatformFailure, "Couldn't access platform secure storage"}

\* the record of a call: the state of the store it met, and its result
KeychainCall(op, environment, result) ==
    [op |-> op, environment |-> environment, available |-> kAvailable,
     stored |-> kStore[environment] # <<>>, result |-> result]

\* KeychainService::get_api_key, e being the error keyring fails with when
\* the store cannot be reached and entry_ok whether Entry::new succeeds then
get_api_key(environment, entry_ok, e) ==
    IF ~kAvailable /\ ~entry_ok
    THEN Err(<<"Keychain", "error:">>, <<>>, 0, e)
    ELSE IF ~kAvailable
    THEN Err(<<"API", "key", "not", "found:">>, <<>>, 0, e)
    ELSE IF kStore[environment] = <<>>
    THEN Err(<<"API", "key", "not", "found:">>, <<>>, 0, NoEntry)
    ELSE Ok(kStore[environment][1])

GetApiKey ==
    \E environment \in Environments, entry_ok \in BOOLEAN, e \in StoreErrors :
        /\ kLast' = KeychainCall("get_api_key", environment,
                        get_api_key(environment, entry_ok, e))
        /\ UNCHANGED <<kStore, kAvailable>>
        /\ UNCHANGED <<tvars, evars, cvars, nvars, lvars, hvars, uvars, vvars>>

\* KeychainService::save_api_key
SaveApiKey ==
    \E environment \in Environments, api_key \in Secrets,
       entry_ok \in BOOLEAN, e \in StoreErrors :
        /\ IF ~kAvailable /\ ~entry_ok
           THEN /\ kLast' = KeychainCall("save_api_key", environment,
                                Err(<<"Keychain", "error:">>, <<>>, 0, e))
                /\ kStore' = kStore
           ELSE IF ~kAvailable
           THEN /\ kLast' = KeychainCall("save_api_key", environment,
                                Err(<<"Failed", "to", "save", "API", "key:">>, <<>>, 0, e))
                /\ kStore' = kStore
           ELSE /\ kLast' = KeychainCall("save_api_key", environment, Ok(""))
                /\ kStore' = [kStore EXCEPT ![environment] = <<api_key>>]
        /\ UNCHANGED kAvailable
        /\ UNCHANGED <<tvars, evars, cvars, nvars, lvars, hvars, uvars, vvars>>

\* KeychainService::delete_api_key
DeleteApiKey ==
    \E environment \in Environments, entry_ok \in BOOLEAN, e \in StoreErrors :
        /\ IF ~kAvailable /\ ~entry_ok
           THEN /\ kLast' = KeychainCall("delete_api_key", environment,
                                Err(<<"Keychain", "error:">>, <<>>, 0, e))
                /\ kStore' = kStore
           ELSE IF ~kAvailable \/ kStore[environment] = <<>>
           THEN /\ kLast' = KeychainCall("delete_api_key", environment,
                                Err(<<"Failed", "to", "delete", "API", "key:">>, <<>>, 0,
                                    IF kAvailable THEN NoEntry ELSE e))
                /\ kStore' = kStore
           ELSE /\ kLast' = KeychainCall("delete_api_key", environment, Ok(""))
                /\ kStore' = [kStore EXCEPT ![environment] = <<>>]
        /\ UNCHANGED kAvailable
        /\ UNCHANGED <<tvars, evars, cvars, nvars, lvars, hvars, uvars, vvars>>

\* the platform store becomes unreachable, or reachable again
StoreAvailability ==
    /\ kAvailable' = ~kAvailable
    /\ UNCHANGED <<kStore, kLast>>
    /\ UNCHANGED <<tvars, evars, cvars, nvars, lvars, hvars, uvars, vvars>>

InitKeychain ==
    /\ tTemplate = <<>>
    /\ tVariables = <<>>
    /\ tCalled = FALSE
    /\ tResult = NoResult
    /\ pc = "idle"
    /\ call = NoCall
    /\ request = NoRequest
    /\ httpCount = 0
    /\ response = NoResponse
    /\ outcome = NoOutcome
    /\ costArgs = NoCostArgs
    /\ costCalled = FALSE
    /\ costValue = 0
    /\ kStore = [environment \in Environments |-> <<>>]
    /\ kAvailable = TRUE
    /\ kLast = NoKeychainCall
    /\ nPc = [i \in Invocations |-> "idle"]
    /\ nCall = [i \in Invocations |-> NoCall]
    /\ nRequest = [i \in Invocations |-> NoRequest]
    /\ nResponse = [i \in Invocations |-> NoResponse]
    /\ nOutcome = [i \in Invocations |-> NoOutcome]
    /\ nPeers = [i \in Invocations |-> {}]
    /\ nLock = 0
    /\ lPc = "idle"
    /\ lNow = 0
    /\ lStart = 0
    /\ lDispatch = 0
    /\ lReturn = 0
    /\ lLatency = 0
    /\ hEntries = <<>>
    /\ hClock = 0
    /\ hLast = NoSave
    /\ uTable = [name \in ProviderNames |-> <<>>]
    /\ uNextId = 1
    /\ uLast = NoCommand
    /\ vInput = NoFile
    /\ vCalled = FALSE
    /\ vResult = NewResult

NextKeychain ==
    \/ GetApiKey
    \/ SaveApiKey
    \/ DeleteApiKey
    \/ StoreAvailability

SpecKeychain == InitKeychain /\ [][NextKeychain]_vars

(***************************************************************************)
(* commands/execution.rs: one invocation of execute_prompt.  The call       *)
(* suspends once, at the adapter's send; HttpReturn is its resumption.     *)
(***************************************************************************)
\* the provider key of the prompt YAML: every serde name, and one that is none
YamlProviders == DOMAIN ProviderFromYaml \cup {"custom"}

ModelNames == {"gpt-4o-mini", "my-model"}

ParameterChoices == {<<>>, <<[temperature |-> <<>>]>>, <<[temperature |-> <<2>>]>>}

MessageChoices ==
    {[role |-> "System", content |-> <<"b">>],
     [role |-> "User", content |-> Placeholder(NameA)],
     [role |-> "Assistant", content |-> Placeholder(NameB)]}

MessageLists == UNION {[1..k -> MessageChoices] : k \in 0..MaxMsgs}

VariableChoices == UNION {[D -> {<<"1">>}] : D \in {{}, {NameA}, {NameA, NameB}}}

ApiKeys == {"", "sk-key"}

ProxyBase == <<"https://", "proxy.example", "/v1">>

\* the same base with a trailing slash
ProxyBaseSlash == <<"https://", "proxy.example", "/v1", "/">>

\* a base whose path, not its host, holds the marketplace name
ProxyBaseOpenRouterPath == <<"https://", "proxy.example", "/", "openrouter.ai", "/v1">>

\* a base whose host only ends in the marketplace name
ProxyBaseOpenRouterSuffix == <<"https://", "not", "openrouter.ai", "/v1">>

BaseUrls == {<<>>, <<ProxyBase>>, <<ProxyBaseSlash>>, <<ProxyBaseOpenRouterPath>>,
             <<ProxyBaseOpenRouterSuffix>>}

Bodies == {"openai:one-choice", "openai:two-choices", "openai:no-choices",
           "anthropic:one-block", "error:invalid-key"}

\* what the send may come back with: no response at all, a response whose
\* body cannot be read, or a response with a body
Responses ==
    {[sent |-> FALSE, status |-> 0, readable |-> FALSE, body |-> ""]}
    \cup [sent : {TRUE}, status : {200, 401}, readable : {FALSE}, body : {"error:invalid-key"}]
    \cup [sent : {TRUE}, status : {200, 401}, readable : {TRUE}, body : Bodies]

\* serde_yaml::from_str: the PromptRuntime of the YAML, valid FALSE when the
\* provider key names no variant
ParsePrompt(c) ==
    IF c.provider \in DOMAIN ProviderFromYaml
    THEN [valid |-> TRUE,
          provider |-> ProviderFromYaml[c.provider],
          model |-> c.model,
          parameters |-> c.parameters,
          messages |-> c.messages]
    ELSE [valid |-> FALSE]

Calls ==
    [provider : YamlProviders, model : ModelNames, parameters : ParameterChoices,
     messages : MessageLists, variables : VariableChoices, api_key : ApiKeys,
     base_url : BaseUrls]

\* execute_prompt up to the await of the adapter's send, or to its return
\* when it returns before
ExecutePrompt ==
    /\ pc = "idle"
    /\ \E c \in Calls :
        /\ call' = c
        /\ LET prompt == ParsePrompt(c)
               r == IF prompt.valid
                    THEN execute(prompt, c.variables, c.api_key, c.base_url)
                    ELSE Err(<<"YAML", "parse", "error:">>, <<>>, 0, "")
           IN  IF r.kind = "Send"
               THEN /\ pc' = "awaiting"
                    /\ request' = r.request
                    /\ httpCount' = httpCount + 1
                    /\ outcome' = outcome
               ELSE /\ pc' = "done"
                    /\ request' = request
                    /\ httpCount' = httpCount
                    /\ outcome' = r
    /\ UNCHANGED response
    /\ UNCHANGED <<tvars, cvars, kvars, nvars, lvars, hvars, uvars, vvars>>

\* HttpReturn sending the request again when the send brought no response
HttpReturn_Retries ==
    /\ pc = "awaiting"
    /\ \E resp \in Responses :
        /\ response' = resp
        /\ IF ~resp.sent
           THEN /\ pc' = "awaiting"
                /\ httpCount' = httpCount + 1
                /\ outcome' = outcome
           ELSE /\ pc' = "done"
                /\ httpCount' = httpCount
                /\ outcome' = execute_response(ParsePrompt(call),
                                  IF request.adapter = "anthropic"
                                  THEN anthropic_execute_response(resp)
                                  ELSE execute_with_name_response(resp))
    /\ UNCHANGED <<call, request>>
    /\ UNCHANGED <<tvars, cvars, kvars, nvars, lvars, hvars, uvars, vvars>>

\* the send returns: the adapter reads the response, execute assembles the
\* result, execute_prompt returns it
HttpReturn ==
    /\ pc = "awaiting"
    /\ \E resp \in Responses :
        /\ response' = resp
        /\ outcome' = execute_response(ParsePrompt(call),
                          IF request.adapter = "anthropic"
                          THEN anthropic_execute_response(resp)
                          ELSE execute_with_name_response(resp))
    /\ pc' = "done"
    /\ UNCHANGED <<call, request, httpCount>>
    /\ UNCHANGED <<tvars, cvars, kvars, nvars, lvars, hvars, uvars, vvars>>

Next ==
    \/ ExecutePrompt
    \/ HttpReturn

Init ==
    /\ tTemplate = <<>>
    /\ tVariables = <<>>
    /\ tCalled = FALSE
    /\ tResult = NoResult
    /\ pc = "idle"
    /\ call = NoCall
    /\ request = NoRequest
    /\ httpCount = 0
    /\ response = NoResponse
    /\ outcome = NoOutcome
    /\ costArgs = NoCostArgs
    /\ costCalled = FALSE
    /\ costValue = 0
    /\ kStore = [environment \in Environments |-> <<>>]
    /\ kAvailable = TRUE
    /\ kLast = NoKeychainCall
    /\ nPc = [i \in Invocations |-> "idle"]
    /\ nCall = [i \in Invocations |-> NoCall]
    /\ nRequest = [i \in Invocations |-> NoRequest]
    /\ nResponse = [i \in Invocations |-> NoResponse]
    /\ nOutcome = [i \in Invocations |-> NoOutcome]
    /\ nPeers = [i \in Invocations |-> {}]
    /\ nLock = 0
    /\ lPc = "idle"
    /\ lNow = 0
    /\ lStart = 0
    /\ lDispatch = 0
    /\ lReturn = 0
    /\ lLatency = 0
    /\ hEntries = <<>>
    /\ hClock = 0
    /\ hLast = NoSave
    /\ uTable = [name \in ProviderNames |-> <<>>]
    /\ uNextId = 1
    /\ uLast = NoCommand
    /\ vInput = NoFile
    /\ vCalled = FALSE
    /\ vResult = NewResult

Spec == Init /\ [][Next]_vars

\* Spec with the fairness the code gives: the call, once made, runs to its
\* await, where the task is resumed by the response only.  No timeout is set
\* on the client or on the request and no timer runs beside the send, so
\* nothing obliges HttpReturn to happen.
SpecFair == Spec /\ WF_vars(ExecutePrompt)

(***************************************************************************)
(* services/executor.rs: the clock readings of one execute call.  lNow is  *)
(* the monotonic clock of Instant, in the milliseconds of as_millis; the   *)
(* time a step takes passes within the step.                               *)
(***************************************************************************)
\* `let start = Instant::now();`, the first statement of execute
ExecStart ==
    /\ lPc = "idle"
    /\ lStart' = lNow
    /\ lPc' = "started"
    /\ UNCHANGED <<lNow, lDispatch, lReturn, lLatency>>
    /\ UNCHANGED <<tvars, evars, cvars, kvars, nvars, hvars, uvars, vvars>>

\* the substitution loop and the temperature: they take d milliseconds and
\* end the call when a variable is missing
ExecSubstitute ==
    /\ lPc = "started"
    /\ \E d \in 0..MaxTick, ok \in BOOLEAN :
        /\ lNow' = lNow + d
        /\ lPc' = IF ok THEN "substituted" ELSE "failed"
    /\ UNCHANGED <<lStart, lDispatch, lReturn, lLatency>>
    /\ UNCHANGED <<tvars, evars, cvars, kvars, nvars, hvars, uvars, vvars>>

\* providers::execute_with_provider is called
ExecDispatch ==
    /\ lPc = "substituted"
    /\ lDispatch' = lNow
    /\ lPc' = "awaiting"
    /\ UNCHANGED <<lNow, lStart, lReturn, lLatency>>
    /\ UNCHANGED <<tvars, evars, cvars, kvars, nvars, hvars, uvars, vvars>>

\* the provider call returns after d milliseconds; on Ok execute reads
\* `start.elapsed().as_millis()`, on Err it returns the error
ExecReturn ==
    /\ lPc = "awaiting"
    /\ \E d \in 0..MaxTick, ok \in BOOLEAN :
        /\ lNow' = lNow + d
        /\ lReturn' = lNow + d
        /\ lLatency' = IF ok THEN (lNow + d) - lStart ELSE lLatency
        /\ lPc' = IF ok THEN "done" ELSE "failed"
    /\ UNCHANGED <<lStart, lDispatch>>
    /\ UNCHANGED <<tvars, evars, cvars, kvars, nvars, hvars, uvars, vvars>>

InitLatency ==
    /\ tTemplate = <<>>
    /\ tVariables = <<>>
    /\ tCalled = FALSE
    /\ tResult = NoResult
    /\ pc = "idle"
    /\ call = NoCall
    /\ request = NoRequest
    /\ httpCount = 0
    /\ response = NoResponse
    /\ outcome = NoOutcome
    /\ costArgs = NoCostArgs
    /\ costCalled = FALSE
    /\ costValue = 0
    /\ kStore = [environment \in Environments |-> <<>>]
    /\ kAvailable = TRUE
    /\ kLast = NoKeychainCall
    /\ nPc = [i \in Invocations |-> "idle"]
    /\ nCall = [i \in Invocations |-> NoCall]
    /\ nRequest = [i \in Invocations |-> NoRequest]
    /\ nResponse = [i \in Invocations |-> NoResponse]
    /\ nOutcome = [i \in Invocations |-> NoOutcome]
    /\ nPeers = [i \in Invocations |-> {}]
    /\ nLock = 0
    /\ lPc = "idle"
    /\ lNow \in 0..MaxTick
    /\ lStart = 0
    /\ lDispatch = 0
    /\ lReturn = 0
    /\ lLatency = 0
    /\ hEntries = <<>>
    /\ hClock = 0
    /\ hLast = NoSave
    /\ uTable = [name \in ProviderNames |-> <<>>]
    /\ uNextId = 1
    /\ uLast = NoCommand
    /\ vInput = NoFile
    /\ vCalled = FALSE
    /\ vResult = NewResult

NextLatency ==
    \/ ExecStart
    \/ ExecSubstitute
    \/ ExecDispatch
    \/ ExecReturn

SpecLatency == InitLatency /\ [][NextLatency]_vars

(***************************************************************************)
(* services/database.rs: the file_history table of ProjectDatabase.        *)
(* created_at is the system time in whole seconds.                         *)
(***************************************************************************)
FilePaths == {"a.vibe.md", "b.vibe.md"}

Contents == {"one", "two"}

\* format!("{:x}", hasher.finish()) of DefaultHasher over the content: the
\* hashes of the contents of the model are distinct
content_hash(content) == <<"hash", content>>

\* the indices of the rows of a file
RowsOf(entries, file_path) ==
    {i \in 1..Len(entries) : entries[i].file_path = file_path}

\* SELECT content_hash ... WHERE file_path = ?1 ORDER BY created_at DESC
\* LIMIT 1, as the Option of .ok(): the rows the query may return are those
\* of the file with the greatest created_at; which of several SQL leaves open
LatestRows(entries, file_path) ==
    {i \in RowsOf(entries, file_path) :
        \A j \in RowsOf(entries, file_path) :
            entries[j].created_at <= entries[i].created_at}

\* ProjectDatabase::save_file_history
SaveFileHistory ==
    /\ Len(hEntries) < MaxHistory
    /\ \E file_path \in FilePaths, content \in Contents :
        \E existing \in IF LatestRows(hEntries, file_path) = {}
                        THEN {<<>>}
                        ELSE {<<hEntries[i].content_hash>> :
                                  i \in LatestRows(hEntries, file_path)} :
            IF existing = <<content_hash(content)>>
            THEN /\ hEntries' = hEntries
                 /\ hLast' = [file_path |-> file_path, content |-> content,
                              before |-> hEntries, returned |-> FALSE]
            ELSE /\ hEntries' = Append(hEntries,
                                    [file_path |-> file_path, content |-> content,
                                     content_hash |-> content_hash(content),
                                     created_at |-> hClock])
                 /\ hLast' = [file_path |-> file_path, content |-> content,
                              before |-> hEntries, returned |-> TRUE]
    /\ UNCHANGED hClock
    /\ UNCHANGED <<tvars, evars, cvars, kvars, nvars, lvars, uvars, vvars>>

\* a second passes
SecondPasses ==
    /\ hClock < MaxSecond
    /\ hClock' = hClock + 1
    /\ UNCHANGED <<hEntries, hLast>>
    /\ UNCHANGED <<tvars, evars, cvars, kvars, nvars, lvars, uvars, vvars>>

InitHistory ==
    /\ tTemplate = <<>>
    /\ tVariables = <<>>
    /\ tCalled = FALSE
    /\ tResult = NoResult
    /\ pc = "idle"
    /\ call = NoCall
    /\ request = NoRequest
    /\ httpCount = 0
    /\ response = NoResponse
    /\ outcome = NoOutcome
    /\ costArgs = NoCostArgs
    /\ costCalled = FALSE
    /\ costValue = 0
    /\ kStore = [environment \in Environments |-> <<>>]
    /\ kAvailable = TRUE
    /\ kLast = NoKeychainCall
    /\ nPc = [i \in Invocations |-> "idle"]
    /\ nCall = [i \in Invocations |-> NoCall]
    /\ nRequest = [i \in Invocations |-> NoRequest]
    /\ nResponse = [i \in Invocations |-> NoResponse]
    /\ nOutcome = [i \in Invocations |-> NoOutcome]
    /\ nPeers = [i \in Invocations |-> {}]
    /\ nLock = 0
    /\ lPc = "idle"
    /\ lNow = 0
    /\ lStart = 0
    /\ lDispatch = 0
    /\ lReturn = 0
    /\ lLatency = 0
    /\ hEntries = <<>>
    /\ hClock = 0
    /\ hLast = NoSave
    /\ uTable = [name \in ProviderNames |-> <<>>]
    /\ uNextId = 1
    /\ uLast = NoCommand
    /\ vInput = NoFile
    /\ vCalled = FALSE
    /\ vResult = NewResult

NextHistory ==
    \/ SaveFileHistory
    \/ SecondPasses

SpecHistory == InitHistory /\ [][NextHistory]_vars

(***************************************************************************)
(* commands/llm_provider.rs over AppDatabase (services/database.rs): the    *)
(* llm_providers table.  A row is kept as its id and its api_key, the       *)
(* table as the row of each name: name is the conflict target of the       *)
(* upsert, and id, the uuid drawn at creation, is the key of the row.      *)
(***************************************************************************)
KeyChoices == {<<>>, <<"">>, <<"sk-one">>, <<"sk-two">>}

KeyValueChoices == {<<>>, <<"">>, <<"sk-old">>}

ProviderInputs ==
    [name : ProviderNames, api_key : KeyChoices, api_key_value : KeyValueChoices]

\* ORDER BY name
NameOrder == <<"my-provider", "openai">>

\* the fixed string shown in place of a key
Mask == "mask"

\* Option::or
OptionOr(a, b) == IF a # <<>> THEN a ELSE b

\* opt.is_some() && !opt.unwrap().is_empty()
NonEmpty(opt) == opt # <<>> /\ opt[1] # ""

\* update_llm_provider choosing the key the way save_llm_provider does
UpdatedKey_AsSave(input, existing) == OptionOr(input.api_key, input.api_key_value)

\* the api_key of update_llm_provider: "Update API key if provided,
\* otherwise keep existing"
UpdatedKey(input, existing) ==
    IF NonEmpty(input.api_key) THEN input.api_key
    ELSE IF NonEmpty(input.api_key_value) THEN input.api_key_value
    ELSE existing.api_key

\* AppDatabase::save_llm_provider: INSERT ... ON CONFLICT(name) DO UPDATE.
\* A row of that name keeps its id and takes the other columns; without one
\* the row is inserted unless its id is that of another row already.
Upsert(table, config) ==
    IF table[config.name] # <<>>
    THEN [ok |-> TRUE,
          table |-> [table EXCEPT ![config.name] =
                        <<[id |-> table[config.name][1].id, api_key |-> config.api_key]>>]]
    ELSE IF \E name \in ProviderNames :
                table[name] # <<>> /\ table[name][1].id = config.id
         THEN [ok |-> FALSE, table |-> table]
         ELSE [ok |-> TRUE,
               table |-> [table EXCEPT ![config.name] =
                             <<[id |-> config.id, api_key |-> config.api_key]>>]]

Command(op, provider_name, input, ok, output) ==
    [op |-> op, provider_name |-> provider_name, input |-> input,
     before |-> uTable, ok |-> ok, output |-> output]

\* the map of list_llm_providers over the rows names[k..] of the table
RECURSIVE ListFrom(_, _, _)
ListFrom(table, names, k) ==
    IF k > Len(names) THEN <<>>
    ELSE IF table[names[k]] = <<>> THEN ListFrom(table, names, k + 1)
    ELSE LET p == table[names[k]][1]
             api_key_status == IF NonEmpty(p.api_key) THEN "configured" ELSE "missing"
         IN  <<[id |-> p.id,
                name |-> names[k],
                api_key |-> IF api_key_status = "configured" THEN <<Mask>> ELSE <<>>,
                api_key_status |-> api_key_status]>>
             \o ListFrom(table, names, k + 1)

\* list_llm_providers returning the key it read
list_llm_providers_Unmasked(table) ==
    [k \in 1..Len(ListFrom(table, NameOrder, 1)) |->
        [ListFrom(table, NameOrder, 1)[k] EXCEPT
            !.api_key = table[ListFrom(table, NameOrder, 1)[k].name][1].api_key]]

\* the command list_llm_providers
list_llm_providers(table) == ListFrom(table, NameOrder, 1)

ListLlmProviders ==
    /\ uLast' = Command("list_llm_providers", None, NoInput, TRUE,
                    list_llm_providers(uTable))
    /\ UNCHANGED <<uTable, uNextId>>
    /\ UNCHANGED <<tvars, evars, cvars, kvars, nvars, lvars, hvars, vvars>>

\* the command save_llm_provider: a new uuid, the key as given
SaveLlmProvider ==
    /\ uNextId <= MaxIds
    /\ \E input \in ProviderInputs :
        LET r == Upsert(uTable, [id |-> uNextId, name |-> input.name,
                                 api_key |-> OptionOr(input.api_key, input.api_key_value)])
        IN  /\ uTable' = r.table
            /\ uLast' = Command("save_llm_provider", None, input, r.ok, <<>>)
    /\ uNextId' = uNextId + 1
    /\ UNCHANGED <<tvars, evars, cvars, kvars, nvars, lvars, hvars, vvars>>

\* the command update_llm_provider
UpdateLlmProvider ==
    /\ \E provider_name \in ProviderNames, input \in ProviderInputs :
        IF uTable[provider_name] = <<>>
        THEN /\ uTable' = uTable
             /\ uLast' = Command("update_llm_provider", provider_name, input, FALSE, <<>>)
        ELSE LET existing == uTable[provider_name][1]
                 r == Upsert(uTable, [id |-> existing.id, name |-> input.name,
                                      api_key |-> UpdatedKey(input, existing)])
             IN  /\ uTable' = r.table
                 /\ uLast' = Command("update_llm_provider", provider_name, input, r.ok, <<>>)
    /\ UNCHANGED uNextId
    /\ UNCHANGED <<tvars, evars, cvars, kvars, nvars, lvars, hvars, vvars>>

\* the command delete_llm_provider
DeleteLlmProvider ==
    /\ \E provider_name \in ProviderNames :
        /\ uTable' = [uTable EXCEPT ![provider_name] = <<>>]
        /\ uLast' = Command("delete_llm_provider", provider_name, NoInput, TRUE, <<>>)
    /\ UNCHANGED uNextId
    /\ UNCHANGED <<tvars, evars, cvars, kvars, nvars, lvars, hvars, vvars>>

InitProviders ==
    /\ tTemplate = <<>>
    /\ tVariables = <<>>
    /\ tCalled = FALSE
    /\ tResult = NoResult
    /\ pc = "idle"
    /\ call = NoCall
    /\ request = NoRequest
    /\ httpCount = 0
    /\ response = NoResponse
    /\ outcome = NoOutcome
    /\ costArgs = NoCostArgs
    /\ costCalled = FALSE
    /\ costValue = 0
    /\ kStore = [environment \in Environments |-> <<>>]
    /\ kAvailable = TRUE
    /\ kLast = NoKeychainCall
    /\ nPc = [i \in Invocations |-> "idle"]
    /\ nCall = [i \in Invocations |-> NoCall]
    /\ nRequest = [i \in Invocations |-> NoRequest]
    /\ nResponse = [i \in Invocations |-> NoResponse]
    /\ nOutcome = [i \in Invocations |-> NoOutcome]
    /\ nPeers = [i \in Invocations |-> {}]
    /\ nLock = 0
    /\ lPc = "idle"
    /\ lNow = 0
    /\ lStart = 0
    /\ lDispatch = 0
    /\ lReturn = 0
    /\ lLatency = 0
    /\ hEntries = <<>>
    /\ hClock = 0
    /\ hLast = NoSave
    /\ uTable = [name \in ProviderNames |-> <<>>]
    /\ uNextId = 1
    /\ uLast = NoCommand
    /\ vInput = NoFile
    /\ vCalled = FALSE
    /\ vResult = NewResult

NextProviders ==
    \/ ListLlmProviders
    \/ SaveLlmProvider
    \/ UpdateLlmProvider
    \/ DeleteLlmProvider

SpecProviders == InitProviders /\ [][NextProviders]_vars

(***************************************************************************)
(* services/validator.rs: FileValidator::validate_file.  What the file      *)
(* system, the project database and parse_markdown_prompt answer is the    *)
(* input; an error or a warning is kept as its type.                       *)
(***************************************************************************)
\* a parsed message: its role, and whether its trimmed content is shorter
\* than 10 characters
ParsedMessages == [role : {"System", "User", "Assistant"}, short : BOOLEAN]

ParseResults ==
    {[ok |-> FALSE, messages |-> <<>>]}
    \cup {[ok |-> TRUE, messages |-> m] :
             m \in UNION {[1..k -> ParsedMessages] : k \in 0..MaxParsed}}

\* check_dependencies: Err, or the dependencies with whether each exists
DependencyResults ==
    {[ok |-> FALSE, deps |-> <<>>]}
    \cup {[ok |-> TRUE, deps |-> d] :
             d \in UNION {[1..k -> [target_file : {"data.json"}, exists : BOOLEAN]] :
                              k \in 0..MaxParsed}}

ValidationInputs ==
    [exists : BOOLEAN, checksum : {"ok", "not_in_database", "mismatch"},
     readable : BOOLEAN, parsed : ParseResults, deps : DependencyResults]

\* result.errors.push(..); result.status = ValidationStatus::Invalid
PushError(result, error_type) ==
    [result EXCEPT !.errors = Append(@, error_type), !.status = "Invalid"]

\* the short_content loop of validate_schema over messages[k..]
RECURSIVE ShortWarnings(_, _)
ShortWarnings(messages, k) ==
    IF k > Len(messages) THEN <<>>
    ELSE (IF messages[k].short THEN <<"short_content">> ELSE <<>>)
             \o ShortWarnings(messages, k + 1)

\* validate_schema: Err, or the warnings
validate_schema(parsed) ==
    IF ~parsed.ok \/ parsed.messages = <<>>
    THEN [ok |-> FALSE, warnings |-> <<>>]
    ELSE [ok |-> TRUE,
          warnings |->
              (IF \E k \in 1..Len(parsed.messages) : parsed.messages[k].role = "System"
               THEN <<>> ELSE <<"no_system_message">>)
              \o (IF \E k \in 1..Len(parsed.messages) : parsed.messages[k].role = "User"
                  THEN <<>> ELSE <<"no_user_message">>)
              \o ShortWarnings(parsed.messages, 1)]

\* the dependency loop recording a missing dependency without setting the
\* status
DependencyLoop_StatusKept(result, deps, k) ==
    [result EXCEPT !.errors =
        @ \o [i \in 1..Cardinality({j \in k..Len(deps) : ~deps[j].exists}) |->
                 "dependency_missing"]]

\* the loop of step 4 over deps[k..]
RECURSIVE DependencyLoop(_, _, _)
DependencyLoop(result, deps, k) ==
    IF k > Len(deps) THEN result
    ELSE DependencyLoop(
             IF ~deps[k].exists THEN PushError(result, "dependency_missing") ELSE result,
             deps, k + 1)

\* the final status: set anew only when there are no errors
FinalStatus(result) ==
    IF result.errors = <<>>
    THEN [result EXCEPT !.status = IF result.warnings # <<>> THEN "Warning" ELSE "Valid"]
    ELSE result

\* FileValidator::validate_file, which always returns Ok(result)
validate_file(in) ==
    IF ~in.exists THEN PushError(NewResult, "file_not_found")
    ELSE LET checked == IF in.checksum # "ok"
                        THEN PushError(NewResult, "checksum_mismatch")
                        ELSE NewResult
         IN  IF ~in.readable THEN PushError(checked, "read_error")
             ELSE LET schema == validate_schema(in.parsed)
                      parsed == IF schema.ok
                                THEN [checked EXCEPT !.warnings = @ \o schema.warnings]
                                ELSE PushError(checked, "schema_invalid")
                      depended == IF in.deps.ok
                                  THEN DependencyLoop(
                                           [parsed EXCEPT !.dependencies = in.deps.deps],
                                           in.deps.deps, 1)
                                  ELSE parsed
                  IN  FinalStatus(depended)

ValidateFile ==
    /\ ~vCalled
    /\ vCalled' = TRUE
    /\ vResult' = validate_file(vInput)
    /\ UNCHANGED vInput
    /\ UNCHANGED <<tvars, evars, cvars, kvars, nvars, lvars, hvars, uvars>>

InitValidate ==
    /\ tTemplate = <<>>
    /\ tVariables = <<>>
    /\ tCalled = FALSE
    /\ tResult = NoResult
    /\ pc = "idle"
    /\ call = NoCall
    /\ request = NoRequest
    /\ httpCount = 0
    /\ response = NoResponse
    /\ outcome = NoOutcome
    /\ costArgs = NoCostArgs
    /\ costCalled = FALSE
    /\ costValue = 0
    /\ kStore = [environment \in Environments |-> <<>>]
    /\ kAvailable = TRUE
    /\ kLast = NoKeychainCall
    /\ nPc = [i \in Invocations |-> "idle"]
    /\ nCall = [i \in Invocations |-> NoCall]
    /\ nRequest = [i \in Invocations |-> NoRequest]
    /\ nResponse = [i \in Invocations |-> NoResponse]
    /\ nOutcome = [i \in Invocations |-> NoOutcome]
    /\ nPeers = [i \in Invocations |-> {}]
    /\ nLock = 0
    /\ lPc = "idle"
    /\ lNow = 0
    /\ lStart = 0
    /\ lDispatch = 0
    /\ lReturn = 0
    /\ lLatency = 0
    /\ hEntries = <<>>
    /\ hClock = 0
    /\ hLast = NoSave
    /\ uTable = [name \in ProviderNames |-> <<>>]
    /\ uNextId = 1
    /\ uLast = NoCommand
    /\ vInput \in ValidationInputs
    /\ vCalled = FALSE
    /\ vResult = NewResult

SpecValidate == InitValidate /\ [][ValidateFile]_vars

(***************************************************************************)
(* commands/execution.rs: NumCalls invocations of execute_prompt running   *)
(* as concurrent tasks.  Each creates its own Executor and its own HTTP     *)
(* client; AppState.app_database is locked by other commands only.         *)
(***************************************************************************)
ConcCalls ==
    {[provider |-> "openai", model |-> "gpt-4o-mini", parameters |-> <<>>,
      messages |-> <<[role |-> "User", content |-> Placeholder(NameA)]>>,
      variables |-> [n \in {NameA} |-> <<"1">>], api_key |-> "sk-key",
      base_url |-> <<>>],
     [provider |-> "deepseek", model |-> "my-model", parameters |-> <<>>,
      messages |-> <<[role |-> "User", content |-> Placeholder(NameA)]>>,
      variables |-> [n \in {NameA} |-> <<"1">>], api_key |-> "sk-key",
      base_url |-> <<ProxyBase>>],
     [provider |-> "anthropic", model |-> "my-model", parameters |-> <<>>,
      messages |-> <<[role |-> "User", content |-> Placeholder(NameA)]>>,
      variables |-> [n \in {NameA} |-> <<"1">>], api_key |-> "sk-key",
      base_url |-> <<>>],
     [provider |-> "openai", model |-> "gpt-4o-mini", parameters |-> <<>>,
      messages |-> <<[role |-> "User", content |-> Placeholder(NameA)]>>,
      variables |-> [n \in {} |-> <<"1">>], api_key |-> "sk-key",
      base_url |-> <<>>]}

ConcResponses ==
    {[sent |-> FALSE, status |-> 0, readable |-> FALSE, body |-> ""],
     [sent |-> TRUE, status |-> 401, readable |-> TRUE, body |-> "error:invalid-key"],
     [sent |-> TRUE, status |-> 200, readable |-> TRUE, body |-> "openai:one-choice"],
     [sent |-> TRUE, status |-> 200, readable |-> TRUE, body |-> "anthropic:one-block"]}

\* the invocations suspended at their send
InFlight == {i \in Invocations : nPc[i] = "awaiting"}

\* invocation i of execute_prompt up to the await of its send, or to its
\* return when it returns before
ConcExecutePrompt ==
    \E i \in Invocations :
        /\ nPc[i] = "idle"
        /\ \E c \in ConcCalls :
            /\ nCall' = [nCall EXCEPT ![i] = c]
            /\ LET prompt == ParsePrompt(c)
                   r == IF prompt.valid
                        THEN execute(prompt, c.variables, c.api_key, c.base_url)
                        ELSE Err(<<"YAML", "parse", "error:">>, <<>>, 0, "")
               IN  IF r.kind = "Send"
                   THEN /\ nPc' = [nPc EXCEPT ![i] = "awaiting"]
                        /\ nRequest' = [nRequest EXCEPT ![i] = r.request]
                        /\ nOutcome' = nOutcome
                   ELSE /\ nPc' = [nPc EXCEPT ![i] = "done"]
                        /\ nRequest' = nRequest
                        /\ nOutcome' = [nOutcome EXCEPT ![i] = r]
        /\ UNCHANGED <<nResponse, nPeers, nLock>>
        /\ UNCHANGED <<tvars, evars, cvars, kvars, lvars, hvars, uvars, vvars>>

\* the invocation started last
LastStarted == CHOOSE i \in Invocations :
    /\ nPc[i] # "idle"
    /\ \A j \in Invocations : nPc[j] # "idle" => j <= i

\* ConcHttpReturn over one Executor shared by the invocations, which holds
\* the prompt of the invocation started last
ConcHttpReturn_SharedExecutor ==
    \E i \in Invocations :
        /\ nPc[i] = "awaiting"
        /\ \E resp \in ConcResponses :
            /\ nResponse' = [nResponse EXCEPT ![i] = resp]
            /\ nOutcome' = [nOutcome EXCEPT ![i] =
                   execute_response(ParsePrompt(nCall[LastStarted]),
                       IF nRequest[i].adapter = "anthropic"
                       THEN anthropic_execute_response(resp)
                       ELSE execute_with_name_response(resp))]
        /\ nPc' = [nPc EXCEPT ![i] = "done"]
        /\ nPeers' = [nPeers EXCEPT ![i] = InFlight \ {i}]
        /\ UNCHANGED <<nCall, nRequest, nLock>>
        /\ UNCHANGED <<tvars, evars, cvars, kvars, lvars, hvars, uvars, vvars>>

\* the send of invocation i returns: its adapter reads the response, its
\* execute assembles the result from its own prompt
ConcHttpReturn ==
    \E i \in Invocations :
        /\ nPc[i] = "awaiting"
        /\ \E resp \in ConcResponses :
            /\ nResponse' = [nResponse EXCEPT ![i] = resp]
            /\ nOutcome' = [nOutcome EXCEPT ![i] =
                   execute_response(ParsePrompt(nCall[i]),
                       IF nRequest[i].adapter = "anthropic"
                       THEN anthropic_execute_response(resp)
                       ELSE execute_with_name_response(resp))]
        /\ nPc' = [nPc EXCEPT ![i] = "done"]
        /\ nPeers' = [nPeers EXCEPT ![i] = InFlight \ {i}]
        /\ UNCHANGED <<nCall, nRequest, nLock>>
        /\ UNCHANGED <<tvars, evars, cvars, kvars, lvars, hvars, uvars, vvars>>

\* another command locks AppState.app_database
LockDatabase ==
    /\ nLock = 0
    /\ nLock' = -1
    /\ UNCHANGED <<nPc, nCall, nRequest, nResponse, nOutcome, nPeers>>
    /\ UNCHANGED <<tvars, evars, cvars, kvars, lvars, hvars, uvars, vvars>>

\* and unlocks it when its guard is dropped
UnlockDatabase ==
    /\ nLock = -1
    /\ nLock' = 0
    /\ UNCHANGED <<nPc, nCall, nRequest, nResponse, nOutcome, nPeers>>
    /\ UNCHANGED <<tvars, evars, cvars, kvars, lvars, hvars, uvars, vvars>>

InitConc ==
    /\ tTemplate = <<>>
    /\ tVariables = <<>>
    /\ tCalled = FALSE
    /\ tResult = NoResult
    /\ pc = "idle"
    /\ call = NoCall
    /\ request = NoRequest
    /\ httpCount = 0
    /\ response = NoResponse
    /\ outcome = NoOutcome
    /\ costArgs = NoCostArgs
    /\ costCalled = FALSE
    /\ costValue = 0
    /\ kStore = [environment \in Environments |-> <<>>]
    /\ kAvailable = TRUE
    /\ kLast = NoKeychainCall
    /\ nPc = [i \in Invocations |-> "idle"]
    /\ nCall = [i \in Invocations |-> NoCall]
    /\ nRequest = [i \in Invocations |-> NoRequest]
    /\ nResponse = [i \in Invocations |-> NoResponse]
    /\ nOutcome = [i \in Invocations |-> NoOutcome]
    /\ nPeers = [i \in Invocations |-> {}]
    /\ nLock = 0
    /\ lPc = "idle"
    /\ lNow = 0
    /\ lStart = 0
    /\ lDispatch = 0
    /\ lReturn = 0
    /\ lLatency = 0
    /\ hEntries = <<>>
    /\ hClock = 0
    /\ hLast = NoSave
    /\ uTable = [name \in ProviderNames |-> <<>>]
    /\ uNextId = 1
    /\ uLast = NoCommand
    /\ vInput = NoFile
    /\ vCalled = FALSE
    /\ vResult = NewResult

NextConc ==
    \/ ConcExecutePrompt
    \/ ConcHttpReturn
    \/ LockDatabase
    \/ UnlockDatabase

SpecConc == InitConc /\ [][NextConc]_vars

Range(f) == {f[i] : i \in DOMAIN f}

\* the template has a {{identifier}} token
HasToken(s) == \E i \in 1..Len(s) : MatchAt(s, i)

\* the characters of s, from index i on, that belong to no placeholder
RECURSIVE Outside(_, _)
Outside(s, i) ==
    IF i > Len(s) THEN <<>>
    ELSE IF MatchAt(s, i) THEN Outside(s, IdentEnd(s, i + 2) + 3)
         ELSE <<s[i]>> \o Outside(s, i + 1)

PlaceholderNames(s) == Range(Captures(s, 1))

AllMatched == PlaceholderNames(tTemplate) \subseteq DOMAIN tVariables

\* neither the template outside its placeholders nor a value holds a "{"
NoOpenBrace ==
    /\ "{" \notin Range(Outside(tTemplate, 1))
    /\ \A n \in DOMAIN tVariables : "{" \notin Range(tVariables[n])

\* C1 as stated: when every placeholder of the template has a key,
\* replace_variables succeeds and its result holds no {{identifier}} token.
C1_NoTokenLeft ==
    (tCalled /\ AllMatched) => (tResult.ok /\ ~HasToken(tResult.value))

\* C1 as amended: when every placeholder of the template has a key,
\* replace_variables succeeds; and when moreover no "{" stands in the template
\* outside its placeholders or in a value, the result holds no {{identifier}}
\* token.
C1_NoTokenLeftAmended ==
    (tCalled /\ AllMatched) =>
        /\ tResult.ok
        /\ NoOpenBrace => ~HasToken(tResult.value)

\* C1's case: two different placeholders, both with a key, were substituted
C1_Witness ==
    /\ tCalled
    /\ AllMatched
    /\ NoOpenBrace
    /\ PlaceholderNames(tTemplate) = Names
    /\ tResult.ok

\* C2: when a placeholder has no key, replace_variables fails and the names
\* its error lists are exactly the unmatched placeholder names, each once.
C2_MissingListedOnce ==
    (tCalled /\ ~AllMatched) =>
        /\ ~tResult.ok
        /\ Range(tResult.missing) = PlaceholderNames(tTemplate) \ DOMAIN tVariables
        /\ Len(tResult.missing) = Cardinality(Range(tResult.missing))

(***************************************************************************)
(* Executor::execute and the provider dispatch, under Spec.                *)
(***************************************************************************)
Invoked == pc # "idle"

\* the YAML of the invocation deserialized
PromptValid == Invoked /\ ParsePrompt(call).valid

\* the placeholder names of message k that the variable map has no key for
MissingOf(k) == PlaceholderNames(call.messages[k].content) \ DOMAIN call.variables

AllMissing == UNION {MissingOf(k) : k \in 1..Len(call.messages)}

MissingVariablesText == <<"Missing", "variables:">>

\* C3: when messages of the prompt miss variables, execute fails with one
\* error that names the missing variables of all the messages.
C3_AllMessagesNamed ==
    (PromptValid /\ AllMissing # {}) =>
        /\ pc = "done"
        /\ outcome.kind = "Err"
        /\ outcome.text = MissingVariablesText
        /\ AllMissing \subseteq Range(outcome.names)

\* C4: when execute fails for a missing variable of any message, no HTTP
\* request was sent during the call.
C4_NoRequestOnMissing ==
    (PromptValid /\ AllMissing # {}) =>
        /\ pc = "done"
        /\ outcome.kind = "Err"
        /\ outcome.text = MissingVariablesText
        /\ httpCount = 0
        /\ request = NoRequest

\* C4's case: the first message substitutes, the second misses a variable,
\* and the provider is one the call would otherwise be sent to
C4_Witness ==
    /\ PromptValid
    /\ pc = "done"
    /\ Len(call.messages) = 2
    /\ MissingOf(1) = {}
    /\ PlaceholderNames(call.messages[1].content) # {}
    /\ MissingOf(2) # {}
    /\ call.provider = "deepseek"
    /\ outcome.kind = "Err"

DeferredProviders == {"Google", "GitHub", "AzureOpenAI"}

\* the word each deferred provider is named by in its error
DeferredWord == [Google |-> "Google", GitHub |-> "GitHub", AzureOpenAI |-> "Azure"]

\* C5: a prompt of kind Google, GitHub or AzureOpenAI ends in an error that
\* names the provider, whatever the model, messages, credential and base
\* URL, and no HTTP request is sent.
C5_DeferredNotImplemented ==
    (PromptValid /\ ParsePrompt(call).provider \in DeferredProviders) =>
        /\ pc = "done"
        /\ outcome.kind = "Err"
        /\ httpCount = 0
        /\ request = NoRequest
        /\ AllMissing = {} =>
               DeferredWord[ParsePrompt(call).provider] \in Range(outcome.text)

\* C5's case: a deferred provider was dispatched with a credential and a
\* base URL
C5_Witness ==
    /\ PromptValid
    /\ pc = "done"
    /\ ParsePrompt(call).provider = "Google"
    /\ AllMissing = {}
    /\ call.messages # <<>>
    /\ call.api_key # ""
    /\ call.base_url # <<>>
    /\ outcome.kind = "Err"

\* C6: a prompt of kind Custom is dispatched to the caller's base URL, and
\* without a base URL it fails with the configuration error before any
\* request.
C6_CustomDispatched ==
    (Invoked /\ call.provider = "custom" /\ AllMissing = {}) =>
        IF call.base_url = <<>>
        THEN /\ pc = "done"
             /\ outcome.kind = "Err"
             /\ outcome.text = <<"Custom", "provider", "requires", "base_url">>
             /\ httpCount = 0
        ELSE /\ httpCount = 1
             /\ request.url = Append(call.base_url[1], "/chat/completions")

OpenAICompatible == {"OpenAI", "DeepSeek", "OpenRouter", "Ollama", "AiHubMix", "Custom"}

\* the endpoint each OpenAI-compatible kind has by default; Custom has none
DefaultBaseOf ==
    [OpenAI |-> <<"https://", "api.openai.com", "/v1">>,
     DeepSeek |-> <<"https://", "api.deepseek.com">>,
     OpenRouter |-> <<"https://", "openrouter.ai", "/api", "/v1">>,
     Ollama |-> <<"http://", "localhost:11434", "/v1">>,
     AiHubMix |-> <<"https://", "aihubmix.com", "/v1">>,
     Custom |-> <<>>]

\* C7: for every OpenAI-compatible kind the request goes to
\* <B>/chat/completions, B being the caller's base URL when one is given and
\* the default endpoint of the kind otherwise.
C7_CallerBaseUrlUsed ==
    (PromptValid /\ ParsePrompt(call).provider \in OpenAICompatible /\ httpCount = 1) =>
        request.url = Append(UnwrapOr(call.base_url,
                                      DefaultBaseOf[ParsePrompt(call).provider]),
                             "/chat/completions")

Returned == pc = "done" /\ httpCount = 1

\* C8: a 2xx response with `choices: []` makes the call return an error
\* value; it does not panic.
C8_EmptyChoicesIsError ==
    (Returned /\ request.adapter = "openai" /\ response.sent
        /\ response.status = 200 /\ response.readable
        /\ response.body = "openai:no-choices") =>
        outcome.kind = "Err"

NonSuccess == response.sent /\ ~(response.status \in 200..299)

\* C9 as stated: for every non-2xx response the adapter returns an error
\* whose message holds the status code and the response body text.
C9_ApiErrorHasStatusAndBody ==
    (Returned /\ request.adapter = "openai" /\ NonSuccess) =>
        /\ outcome.kind = "Err"
        /\ outcome.text = <<"API", "error">>
        /\ outcome.status = response.status
        /\ outcome.body = response.body

\* C9 as amended: for every non-2xx response the adapter returns an error
\* whose message holds the status code and, when the body could be read, the
\* response body text; when it could not, the body text of the message is
\* empty.  The body is never parsed as a completion.
C9_ApiErrorAmended ==
    (Returned /\ request.adapter = "openai" /\ NonSuccess) =>
        /\ outcome.kind = "Err"
        /\ outcome.text = <<"API", "error">>
        /\ outcome.status = response.status
        /\ outcome.body = IF response.readable THEN response.body ELSE ""

\* C9's case: a 401 whose body is, read as JSON, a well-formed completion
C9_Witness ==
    /\ Returned
    /\ request.adapter = "openai"
    /\ response.status = 401
    /\ response.readable
    /\ response.body = "openai:one-choice"
    /\ outcome.kind = "Err"

\* C10: an invocation whose credential is the empty string fails, and no
\* request is sent for it.
C10_EmptyCredentialRejected ==
    (PromptValid /\ call.api_key = "") =>
        /\ pc = "done"
        /\ outcome.kind = "Err"
        /\ httpCount = 0


\* the key the dispatcher hands to the OpenAI-compatible adapter
KeyHanded == IF ParsePrompt(call).provider = "Ollama" THEN "" ELSE call.api_key

\* C11: the request carries `Authorization: Bearer <credential>` only when
\* the credential handed to the adapter is non-empty; with an empty one it
\* carries no Authorization header.
C11_BearerOnlyWhenNonEmpty ==
    (httpCount = 1 /\ request.adapter = "openai") =>
        /\ KeyHanded = "" => request.authorization = <<>>
        /\ request.authorization # <<>> =>
               (KeyHanded # "" /\ request.authorization = <<"Bearer", KeyHanded>>)

\* C11's case: a request was sent for an invocation with an empty key
C11_Witness ==
    /\ httpCount = 1
    /\ request.adapter = "openai"
    /\ ParsePrompt(call).provider = "DeepSeek"
    /\ call.api_key = ""
    /\ request.authorization = <<>>

\* C12: an invocation sends at most one HTTP request, also after a transport
\* failure, a non-2xx response or a parse failure.
C12_AtMostOneRequest ==
    /\ httpCount <= 1
    /\ (pc = "done" /\ httpCount = 1) => outcome.kind \in {"Ok", "Err", "Panic"}

\* C12's case: the send failed and the call returned the error
C12_Witness ==
    /\ Returned
    /\ ~response.sent
    /\ outcome.kind = "Err"
    /\ outcome.text = <<"Network", "error:">>


(***************************************************************************)
(* calculate_cost, under SpecCost.  Costs are in units of 1e-8 USD, exact.  *)
(***************************************************************************)
Unlisted == costArgs.model \notin ListedModels(costArgs.provider)

\* C13 as stated: a (provider, model) pair whose model the price table does
\* not name costs exactly zero, whatever the provider and the token counts.
C13_UnknownCostsZero ==
    (costCalled /\ Unlisted) => costValue = 0

\* C13 as amended: a model the price table does not name costs exactly zero
\* for every provider but DeepSeek, which is priced per provider: any DeepSeek
\* model costs 0.14 per million input and 0.28 per million output tokens.
C13_UnknownCostsZeroAmended ==
    costCalled =>
        /\ (Unlisted /\ costArgs.provider # "DeepSeek") => costValue = 0
        /\ costArgs.provider = "DeepSeek" =>
               costValue = 14 * costArgs.input_tokens + 28 * costArgs.output_tokens

\* C13's case: an unlisted model of a provider with listed ones, with tokens
C13_Witness ==
    /\ costCalled
    /\ costArgs.provider = "OpenAI"
    /\ costArgs.model = "my-model"
    /\ costArgs.input_tokens = 100000
    /\ costArgs.output_tokens > 0
    /\ costValue = 0

\* C14: for a pair of the price table the cost is input_tokens / 1e6 *
\* input_price + output_tokens / 1e6 * output_price (gpt-4o-mini of OpenAI at
\* 0.15 and 0.60); it is zero for zero tokens and the sum of the cost of the
\* input tokens alone and of the output tokens alone.
C14_CostFormula ==
    costCalled =>
        LET p == Prices(costArgs.model, costArgs.provider)
            m == costArgs.model
            pr == costArgs.provider
            i == costArgs.input_tokens
            o == costArgs.output_tokens
        IN  /\ costValue = i * p[1] + o * p[2]
            /\ (pr = "OpenAI" /\ m = "gpt-4o-mini") => costValue = 15 * i + 60 * o
            /\ (i = 0 /\ o = 0) => costValue = 0
            /\ costValue = calculate_cost(m, pr, i, 0) + calculate_cost(m, pr, 0, o)

\* C14's case: gpt-4o-mini with input and output tokens
C14_Witness ==
    /\ costCalled
    /\ costArgs.provider = "OpenAI"
    /\ costArgs.model = "gpt-4o-mini"
    /\ costArgs.input_tokens = 1
    /\ costArgs.output_tokens = 2
    /\ costValue = 135


(***************************************************************************)
(* Temperature and result assembly, under Spec.                            *)
(***************************************************************************)
\* C15: the temperature sent is prompt.config.parameters.temperature when it
\* is present, and 0.7 (7 tenths) when the parameters block or its
\* temperature field is absent.
C15_TemperatureSent ==
    httpCount = 1 =>
        request.body.temperature =
            IF call.parameters = <<>> THEN 7
            ELSE IF call.parameters[1].temperature = <<>> THEN 7
            ELSE call.parameters[1].temperature[1]

\* C15's case: a parameters block without a temperature
C15_Witness ==
    /\ httpCount = 1
    /\ call.parameters # <<>>
    /\ call.parameters[1].temperature = <<>>
    /\ request.body.temperature = 7

Succeeded == Returned /\ outcome.kind = "Ok" /\ request.adapter = "openai"

\* C16: on success the output is the content of the first choice, the token
\* counts are those of the returned usage, the model and the provider are
\* those of the prompt's config, and the cost is the cost model applied to
\* that usage, provider and model.
C16_ResultFromResponse ==
    Succeeded =>
        LET parsed == ParseOpenAIResponse(response.body)
            result == outcome.value
        IN  /\ parsed.valid
            /\ result.output = parsed.choices[1]
            /\ response.body = "openai:two-choices" => result.output = "first"
            /\ result.tokens_input = parsed.usage.prompt_tokens
            /\ result.tokens_output = parsed.usage.completion_tokens
            /\ result.model = call.model
            /\ result.provider = ProviderFromYaml[call.provider]
            /\ result.cost_usd =
                   calculate_cost(call.model, ProviderFromYaml[call.provider],
                       parsed.usage.prompt_tokens, parsed.usage.completion_tokens)

\* C16's case: a response with two choices, for a model the table prices
C16_Witness ==
    /\ Succeeded
    /\ response.body = "openai:two-choices"
    /\ call.provider = "openai"
    /\ call.model = "gpt-4o-mini"
    /\ outcome.value.output = "first"
    /\ outcome.value.tokens_input = 2
    /\ outcome.value.tokens_output = 1
    /\ outcome.value.cost_usd = 90


(***************************************************************************)
(* The request URL and the marketplace headers, under Spec.                *)
(***************************************************************************)
SentCompatible == httpCount = 1 /\ request.adapter = "openai"

\* the base without its trailing slash, when it has one
StripTrailingSlash(base) ==
    IF base # <<>> /\ base[Len(base)] = "/" THEN SubSeq(base, 1, Len(base) - 1)
    ELSE base

\* C19: the URL posted to has exactly one slash before `chat/completions`
\* and no doubled `/v1` segment, and bases that differ only by a trailing
\* slash give the same URL.
C19_UrlNormalized ==
    SentCompatible =>
        LET url == request.url
        IN  /\ url[Len(url)] = "/chat/completions"
            /\ url[Len(url) - 1] # "/"
            /\ \A i \in 1..(Len(url) - 1) : ~(url[i] = "/v1" /\ url[i + 1] = "/v1")
            /\ (call.base_url # <<>> /\ call.provider # "openai") =>
                   url = Append(StripTrailingSlash(call.base_url[1]), "/chat/completions")

\* the fragments a path begins with
IsPathStart(f) == f \in {"/", "/v1", "/api", "/chat/completions"}

\* the host of a URL: what stands between the scheme and the path
RECURSIVE HostFrom(_, _)
HostFrom(url, i) ==
    IF i > Len(url) \/ IsPathStart(url[i]) THEN <<>>
    ELSE <<url[i]>> \o HostFrom(url, i + 1)

\* C20: the HTTP-Referer and X-Title headers are on the request exactly when
\* the host of the resolved base URL is openrouter.ai.
C20_HeadersIffMarketplaceHost ==
    SentCompatible =>
        (request.openrouter_headers <=> HostFrom(request.url, 2) = <<"openrouter.ai">>)


(***************************************************************************)
(* KeychainService::get_api_key, under SpecKeychain.                       *)
(***************************************************************************)
LookedUp == kLast.op = "get_api_key" /\ kLast.result.kind = "Err"

\* what a lookup of a key that was never stored returns
NotFoundText == <<"API", "key", "not", "found:">>

\* C18: a lookup of a key that is not stored and a lookup that fails because
\* the platform store cannot be reached return errors of different kinds:
\* the not-found error is returned exactly when the store was reached and
\* held no key.
C18_NotFoundDistinctFromUnavailable ==
    LookedUp =>
        (kLast.result.text = NotFoundText <=> (kLast.available /\ ~kLast.stored))


(***************************************************************************)
(* Concurrent invocations of execute_prompt, under SpecConc.               *)
(***************************************************************************)
\* what the call c returns when it runs alone and its send, if it sends,
\* comes back with resp
Alone(c, resp) ==
    LET prompt == ParsePrompt(c)
        r == IF prompt.valid
             THEN execute(prompt, c.variables, c.api_key, c.base_url)
             ELSE Err(<<"YAML", "parse", "error:">>, <<>>, 0, "")
    IN  IF r.kind # "Send" THEN r
        ELSE execute_response(prompt,
                 IF r.request.adapter = "anthropic"
                 THEN anthropic_execute_response(resp)
                 ELSE execute_with_name_response(resp))

\* C17: in every interleaving of the concurrent invocations, each one that
\* has returned returned what it returns alone with the same arguments and
\* the same provider response, and no invocation holds the database lock
\* while it awaits its response.
C17_OutcomeAsAlone ==
    \A i \in Invocations :
        /\ nPc[i] = "done" => nOutcome[i] = Alone(nCall[i], nResponse[i])
        /\ nPc[i] = "awaiting" => nLock # i

\* an invocation returned a result while another, with other arguments, was
\* awaiting its response
C17_Witness ==
    \E i \in Invocations :
        /\ nPc[i] = "done"
        /\ nOutcome[i].kind = "Ok"
        /\ \E j \in nPeers[i] : nCall[j] # nCall[i]


\* C23: execute never dispatches an empty message list: a request that was
\* sent carries at least one message, and a prompt with no messages is
\* rejected before any request is sent.
C23_NoEmptyMessageList ==
    /\ httpCount >= 1 => Len(request.body.messages) >= 1
    /\ (PromptValid /\ Len(call.messages) = 0) =>
           (httpCount = 0 /\ outcome.kind = "Err")

\* the kinds served by the OpenAI-compatible adapter that are not local
RemoteCompatible == {"OpenAI", "DeepSeek", "OpenRouter", "AiHubMix"}

\* C29: a request dispatched for Ollama carries no Authorization header,
\* whatever the caller's api_key; a request dispatched for any other
\* OpenAI-compatible kind with a non-empty api_key carries that key,
\* unchanged, as its bearer token.
C29_LocalKindSendsNoCredential ==
    (httpCount = 1 /\ request.adapter = "openai") =>
        /\ ParsePrompt(call).provider = "Ollama" => request.authorization = <<>>
        /\ (ParsePrompt(call).provider \in RemoteCompatible /\ call.api_key # "") =>
               request.authorization = <<"Bearer", call.api_key>>

\* C29's case: a request went out for Ollama though the caller gave a key
C29_Witness ==
    /\ httpCount = 1
    /\ ParsePrompt(call).provider = "Ollama"
    /\ call.api_key = "sk-key"
    /\ request.authorization = <<>>


\* the template with every placeholder occurrence replaced by the value of
\* its own variable in one pass from index i on: what a value brings in is
\* not looked at again
RECURSIVE SimultaneousFrom(_, _, _)
SimultaneousFrom(s, variables, i) ==
    IF i > Len(s) THEN <<>>
    ELSE IF MatchAt(s, i) /\ SubSeq(s, i + 2, IdentEnd(s, i + 2)) \in DOMAIN variables
         THEN variables[SubSeq(s, i + 2, IdentEnd(s, i + 2))]
                  \o SimultaneousFrom(s, variables, IdentEnd(s, i + 2) + 3)
         ELSE <<s[i]>> \o SimultaneousFrom(s, variables, i + 1)

\* C27: when every placeholder of the template has a key, replace_variables
\* returns the template with each placeholder occurrence replaced, in one
\* simultaneous pass, by the value of its own variable; text a value brings
\* in is never substituted again.
C27_SimultaneousPass ==
    (tCalled /\ AllMatched) =>
        (tResult.ok /\ tResult.value = SimultaneousFrom(tTemplate, tVariables, 1))

\* the captures of all messages of the call, in order
RECURSIVE AllCaptures(_, _)
AllCaptures(messages, k) ==
    IF k > Len(messages) THEN <<>>
    ELSE Captures(messages[k].content, 1) \o AllCaptures(messages, k + 1)

\* the index of the first occurrence of x in seq
FirstIndex(seq, x) == CHOOSE i \in 1..Len(seq) :
    seq[i] = x /\ \A j \in 1..(i - 1) : seq[j] # x

\* the substitution step of execute ended the call
SubstitutionFailed ==
    /\ pc = "done"
    /\ httpCount = 0
    /\ outcome.kind = "Err"
    /\ outcome.text = MissingVariablesText

\* C28: the substitution step of execute succeeds for all messages exactly
\* when the variable map has a key for every name extract_variables returns
\* for the prompt; and extract_variables returns each placeholder name of
\* any message exactly once, in the order of first occurrence.
C28_SubstitutionIffExtractedKeyed ==
    PromptValid =>
        LET names == extract_variables(ParsePrompt(call))
            caps == AllCaptures(call.messages, 1)
        IN  /\ ~SubstitutionFailed <=> Range(names) \subseteq DOMAIN call.variables
            /\ Range(names) = Range(caps)
            /\ Len(names) = Cardinality(Range(names))
            /\ \A i, j \in 1..Len(names) :
                   i < j => FirstIndex(caps, names[i]) < FirstIndex(caps, names[j])

\* C28's case: two messages hold the same placeholder, with a key, and the
\* call went past its substitution step
C28_Witness ==
    /\ PromptValid
    /\ Len(call.messages) = 2
    /\ AllCaptures(call.messages, 1) = <<NameA, NameA>>
    /\ extract_variables(ParsePrompt(call)) = <<NameA>>
    /\ NameA \in DOMAIN call.variables
    /\ httpCount = 1



\* C22: every invocation eventually returns a result or an error, also when
\* the provider never answers the request.
C22_EventuallyReturns == (pc = "awaiting") ~> (pc = "done")


(***************************************************************************)
(* The latency of execute, under SpecLatency.                              *)
(***************************************************************************)
\* C21: the start of the latency is recorded after the substitution and
\* immediately before the provider is called, so latency_ms of a result is
\* the time from the dispatch to the provider's return.
C21_LatencyFromDispatch ==
    /\ lPc \in {"awaiting", "done"} => lStart = lDispatch
    /\ lPc = "done" => lLatency = lReturn - lDispatch


(***************************************************************************)
(* save_file_history, under SpecHistory.                                   *)
(***************************************************************************)
\* the contents of the rows of a file, oldest first
RECURSIVE ContentsOf(_, _)
ContentsOf(entries, file_path) ==
    IF entries = <<>> THEN <<>>
    ELSE IF Head(entries).file_path = file_path
         THEN <<Head(entries).content>> \o ContentsOf(Tail(entries), file_path)
         ELSE ContentsOf(Tail(entries), file_path)

\* the content of the last call is that of the file's most recently saved row
SameAsLastSaved ==
    LET saved == ContentsOf(hLast.before, hLast.file_path)
    IN  saved # <<>> /\ saved[Len(saved)] = hLast.content

\* C24: a save_file_history call returns false and adds no row exactly when
\* its content is that of the file's most recently saved row, and otherwise
\* adds exactly one row and returns true; so no two consecutive rows of a
\* file hold the same content, also for saves within one second.
C24_NewRowIffContentChanged ==
    /\ hLast.file_path # None =>
           /\ hLast.returned = ~SameAsLastSaved
           /\ hEntries = IF hLast.returned
                         THEN Append(hLast.before,
                                  [file_path |-> hLast.file_path,
                                   content |-> hLast.content,
                                   content_hash |-> content_hash(hLast.content),
                                   created_at |-> hEntries[Len(hEntries)].created_at])
                         ELSE hLast.before
    /\ \A file_path \in FilePaths :
           LET saved == ContentsOf(hEntries, file_path)
           IN  \A i \in 1..(Len(saved) - 1) : saved[i] # saved[i + 1]


(***************************************************************************)
(* The commands of llm_provider.rs, under SpecProviders.                   *)
(***************************************************************************)
Updated == uLast.op = "update_llm_provider" /\ uLast.ok

\* the non-empty key an input carries, <<>> when it carries none
SuppliedKey(input) ==
    IF input.api_key # <<>> /\ input.api_key # <<"">> THEN input.api_key
    ELSE IF input.api_key_value # <<>> /\ input.api_key_value # <<"">>
         THEN input.api_key_value
         ELSE <<>>

\* C25: after update_llm_provider the provider, under the id it had, holds
\* the key it held before when the input carries no key or only empty ones,
\* and the supplied key when the input carries a non-empty one.
C25_KeyKeptUnlessSupplied ==
    Updated =>
        LET existing == uLast.before[uLast.provider_name][1]
            supplied == SuppliedKey(uLast.input)
        IN  \E name \in ProviderNames :
                /\ uTable[name] # <<>>
                /\ uTable[name][1].id = existing.id
                /\ uTable[name][1].api_key =
                       IF supplied = <<>> THEN existing.api_key ELSE supplied

Listed == uLast.op = "list_llm_providers"

\* the table with every non-empty key replaced by another secret
Blinded(table) ==
    [name \in ProviderNames |->
        IF table[name] # <<>> /\ NonEmpty(table[name][1].api_key)
        THEN <<[table[name][1] EXCEPT !.api_key = <<"sk-blind">>]>>
        ELSE table[name]]

\* C26: list_llm_providers exposes no stored key: each api_key it returns is
\* absent with status "missing" or the mask with status "configured", and
\* the list is the one returned for a table that differs in the values of
\* its non-empty keys only.
C26_ListExposesNoKey ==
    Listed =>
        /\ \A k \in 1..Len(uLast.output) :
               \/ uLast.output[k].api_key = <<>> /\ uLast.output[k].api_key_status = "missing"
               \/ uLast.output[k].api_key = <<Mask>>
                      /\ uLast.output[k].api_key_status = "configured"
        /\ uLast.output = list_llm_providers(Blinded(uLast.before))

\* C26's case: two providers are listed, one with a key and one with none
C26_Witness ==
    /\ Listed
    /\ Len(uLast.output) = 2
    /\ uLast.output[1].api_key = <<Mask>>
    /\ uLast.output[2].api_key = <<>>
    /\ NonEmpty(uTable["my-provider"][1].api_key)



(***************************************************************************)
(* validate_file, under SpecValidate.                                      *)
(***************************************************************************)
\* C30: the status validate_file returns is Invalid exactly when the errors
\* list is non-empty, Warning exactly when there are no errors and at least
\* one warning, and Valid exactly when both lists are empty, on every path.
C30_StatusMatchesLists ==
    vCalled =>
        /\ vResult.status = "Invalid" <=> vResult.errors # <<>>
        /\ vResult.status = "Warning" <=>
               (vResult.errors = <<>> /\ vResult.warnings # <<>>)
        /\ vResult.status = "Valid" <=>
               (vResult.errors = <<>> /\ vResult.warnings = <<>>)

\* C30's case: a file that parses with a warning and whose only error is a
\* missing dependency
C30_Witness ==
    /\ vCalled
    /\ vResult.warnings # <<>>
    /\ vResult.errors = <<"dependency_missing">>
    /\ vResult.status = "Invalid"

====
